---- MODULE Spec2Model ----
(***************************************************************************)
(* The sandbox pool of kubent (src/kubent/src/sandbox): SandboxManager,    *)
(* its two OrderedDict tiers (_pool, _evicted), SandboxPoolItem, the       *)
(* DockerSandbox constructor and close(), and the part of the docker       *)
(* daemon those calls talk to.                                             *)
(*                                                                         *)
(* Strings are sequences of symbols, so that f"{agent_name}:{session_id}"  *)
(* and f"{agent_name}-sandbox-{session_id}" are real concatenations.       *)
(***************************************************************************)
EXTENDS Integers, Sequences, FiniteSets, TLC

(* ------------------------------ bounds ------------------------------- *)

\* the clock time.time() takes the values 0..MaxTime
MaxTime == 1
\* get_sandbox and mark_sandbox calls of one run that admit or touch an entry
MaxAccesses == 4
\* DockerSandbox objects of one key that are referenced at the same time
MaxLive == 3
\* the longest content given to write_file, in characters
MaxContent == 3
\* the largest retries given to init_docker_client
MaxRetries == 3
\* init_docker_client calls of one run
MaxBoots == 3

(* ------------------------------ inputs ------------------------------- *)

\* SandboxManager(capacity=...)
Capacities == {1, 2}

Agents == {<<"A">>, <<"B">>, <<"C">>}
Sessions == {<<"s1">>}
Images == {"python:3.12.12"}
\* config=None of get_sandbox
None == [none |-> TRUE]

\* DockerSandboxConfig values a caller passes (docker_volumns and
\* life_seconds do not reach the pool's bookkeeping)
Configs ==
    [agent_name : Agents, session_id : Sessions, docker_image : Images]

\* the configs a caller passes for an identity: bash() builds the config
\* from the agent_name and session_id it asks the pool for
ConfigsFor(agent_name, session_id) ==
    {c \in Configs : c.agent_name = agent_name /\ c.session_id = session_id}

IdleTimeouts == {-1, 0, 1}

(* --------------------------- OrderedDict ----------------------------- *)
\* An OrderedDict is the sequence of its (key, item) pairs, oldest first.

od_keys(od) == {od[i].key : i \in DOMAIN od}

od_has(od, key) == \E i \in DOMAIN od : od[i].key = key

od_index(od, key) == CHOOSE i \in DOMAIN od : od[i].key = key

od_get(od, key) == od[od_index(od, key)].item

\* od.pop(key)
od_pop(od, key) == SelectSeq(od, LAMBDA e : e.key # key)

\* od[key] = item : in place when the key is present, appended otherwise
od_set(od, key, item) ==
    IF od_has(od, key)
    THEN [i \in DOMAIN od |->
            IF od[i].key = key THEN [key |-> key, item |-> item] ELSE od[i]]
    ELSE Append(od, [key |-> key, item |-> item])

\* od.move_to_end(key)
move_to_end(od, key) ==
    Append(od_pop(od, key), [key |-> key, item |-> od_get(od, key)])

(* ------------------------------ core.py ------------------------------ *)

\* a container name built from the session alone
container_name_by_session(config) == <<"sandbox-">> \o config.session_id

\* DockerSandbox.__init__: f"{config.agent_name}-sandbox-{config.session_id}"
container_name(config) ==
    config.agent_name \o <<"-sandbox-">> \o config.session_id

ContainerNames == {container_name(c) : c \in Configs}

Req(req, name) == [req |-> req, name |-> name]

\* DockerContainer.in_use: containers.get raises NotFound for an unknown name
in_use(d, name) ==
    IF d[name] = "absent"
    THEN [value |-> FALSE, calls |-> <<Req("get", name)>>]
    ELSE [value |-> TRUE, calls |-> <<Req("get", name), Req("reload", name)>>]

\* DockerContainer.restart: containers.get(name) then container.start()
restart(d, name, accept) ==
    IF d[name] = "absent"
    THEN [raised |-> TRUE, containers |-> d, calls |-> <<Req("get", name)>>]
    ELSE [raised |-> ~accept,
          containers |-> IF accept THEN [d EXCEPT ![name] = "running"] ELSE d,
          calls |-> <<Req("get", name), Req("start", name)>>]

\* DockerContainer.run: containers.run(**cmd), detached, with
\* cmd["command"] = list(command)
run(d, name, command, accept) ==
    [raised |-> ~accept,
     containers |-> IF accept THEN [d EXCEPT ![name] = "running"] ELSE d,
     calls |-> <<[req |-> "run", name |-> name, command |-> command]>>]

\* DockerSandboxConfig.life_seconds: int = 600
DefaultLifeSeconds == 600

\* config.life_seconds, the default when the caller gave none
life_seconds(config) ==
    IF "life_seconds" \in DOMAIN config THEN config.life_seconds
    ELSE DefaultLifeSeconds

\* str(n) of a natural number: its decimal digits
RECURSIVE str(_)
str(n) ==
    LET digit == <<"0", "1", "2", "3", "4", "5", "6", "7", "8", "9">>
    IN IF n < 10 THEN <<digit[n + 1]>>
       ELSE str(n \div 10) \o <<digit[(n % 10) + 1]>>

\* a keep-alive command that sleeps for the default time whatever the
\* config says
keep_alive_default(config) == <<"sleep", str(DefaultLifeSeconds)>>

\* DockerSandbox.__init__: command=["sleep", str(config.life_seconds)]
keep_alive(config) == <<"sleep", str(life_seconds(config))>>

\* DockerSandbox.__init__: restart the container when the daemon knows the
\* name, run a new one otherwise; a daemon failure propagates
DockerSandbox(config, id, d, accept) ==
    LET name == container_name(config)
        used == in_use(d, name)
        made == IF used.value THEN restart(d, name, accept)
                ELSE run(d, name, keep_alive(config), accept)
    IN [raised |-> made.raised,
        sandbox |-> [id |-> id, session_id |-> config.session_id,
                     container_name |-> name],
        containers |-> made.containers,
        calls |-> used.calls \o made.calls]

\* DockerContainer._is_running: get, reload, status == "running"
_is_running(d, name) ==
    [value |-> d[name] = "running",
     calls |-> <<Req("get", name), Req("reload", name)>>]

\* an exec that starts the container whatever its status is
exec_always_start(d, name, command, accept) ==
    IF d[name] = "absent"
    THEN [raised |-> TRUE, containers |-> d, calls |-> <<Req("get", name)>>]
    ELSE LET started == restart(d, name, accept)
         IN [raised |-> started.raised, containers |-> started.containers,
             calls |-> <<Req("get", name)>> \o started.calls
                       \o IF started.raised THEN <<>>
                          ELSE <<Req("reload", name),
                                 [req |-> "exec_run", name |-> name,
                                  command |-> command]>>]

\* DockerContainer.exec: containers.get(name); when the container is not
\* running, restart() and reload; then container.exec_run(command).
\* NotFound and a rejected start propagate to the caller.
exec(d, name, command, accept) ==
    IF d[name] = "absent"
    THEN [raised |-> TRUE, containers |-> d, calls |-> <<Req("get", name)>>]
    ELSE LET running == _is_running(d, name)
             started == IF running.value
                        THEN [raised |-> FALSE, containers |-> d,
                              calls |-> <<>>]
                        ELSE LET r == restart(d, name, accept)
                             IN [r EXCEPT
                                    !.calls = IF r.raised THEN @
                                              ELSE @ \o <<Req("reload", name)>>]
         IN [raised |-> started.raised, containers |-> started.containers,
             calls |-> <<Req("get", name)>> \o running.calls
                       \o started.calls
                       \o IF started.raised THEN <<>>
                          ELSE <<[req |-> "exec_run", name |-> name,
                                  command |-> command]>>]

\* DockerContainer.stop: containers.get(name) then container.stop()
stop(d, name, accept) ==
    IF d[name] = "absent"
    THEN [raised |-> TRUE, containers |-> d, calls |-> <<Req("get", name)>>]
    ELSE [raised |-> ~accept,
          containers |-> IF accept THEN [d EXCEPT ![name] = "exited"] ELSE d,
          calls |-> <<Req("get", name), Req("stop", name)>>]

\* DockerContainer.remove_container: the daemon refuses a running container
remove_container(d, name, accept) ==
    IF d[name] = "absent"
    THEN [raised |-> TRUE, containers |-> d, calls |-> <<Req("get", name)>>]
    ELSE LET ok == accept /\ d[name] # "running"
         IN [raised |-> ~ok,
             containers |-> IF ok THEN [d EXCEPT ![name] = "absent"] ELSE d,
             calls |-> <<Req("get", name), Req("remove", name)>>]

\* a close that gives up, and raises, when the stop fails
close_stop_first(sandbox, d, stop_ok, remove_ok) ==
    LET name == sandbox.container_name
        s == stop(d, name, stop_ok)
        r == remove_container(s.containers, name, remove_ok)
    IN IF s.raised
       THEN [containers |-> s.containers, calls |-> s.calls,
             stop_raised |-> TRUE, remove_raised |-> FALSE, raised |-> TRUE]
       ELSE [containers |-> r.containers, calls |-> s.calls \o r.calls,
             stop_raised |-> FALSE, remove_raised |-> r.raised,
             raised |-> FALSE]

\* DockerSandbox.close: stop, then remove, each failure caught and printed,
\* so that close() itself returns normally (raised is FALSE)
close(sandbox, d, stop_ok, remove_ok) ==
    LET name == sandbox.container_name
        s == stop(d, name, stop_ok)
        r == remove_container(s.containers, name, remove_ok)
    IN [containers |-> r.containers, calls |-> s.calls \o r.calls,
        stop_raised |-> s.raised, remove_raised |-> r.raised,
        raised |-> FALSE]

(* ------------------------- core.py: commands -------------------------- *)
\* A string is the sequence of its characters; a run of characters that
\* shlex.quote and the shell treat alike ("tmp", "EOF", "s1") may stand as
\* one element.  The characters below are always elements of their own.

\* the characters outside [\w@%+=:,./-], which make shlex.quote quote
UnsafeChars == {" ", "'", "\"", "\n", "&&", "<<", ">"}

\* " ".join(words), sep.join(words)
RECURSIVE join(_, _)
join(sep, words) ==
    IF words = <<>> THEN <<>>
    ELSE IF Len(words) = 1 THEN words[1]
    ELSE words[1] \o sep \o join(sep, Tail(words))

\* text.split(sep) for a one-character sep: the pieces between the seps
RECURSIVE split(_, _)
split(text, sep) ==
    IF \A i \in DOMAIN text : text[i] # sep THEN <<text>>
    ELSE LET i == CHOOSE j \in DOMAIN text :
                      text[j] = sep /\ \A k \in 1..(j - 1) : text[k] # sep
         IN <<SubSeq(text, 1, i - 1)>>
                \o split(SubSeq(text, i + 1, Len(text)), sep)

\* s.replace("'", "'\"'\"'")
RECURSIVE replace_quote(_)
replace_quote(text) ==
    IF text = <<>> THEN <<>>
    ELSE (IF Head(text) = "'" THEN <<"'", "\"", "'", "\"", "'">>
          ELSE <<Head(text)>>) \o replace_quote(Tail(text))

\* a quote that leaves every string as it is
shlex_quote_none(text) == text

\* shlex.quote
shlex_quote(text) ==
    IF text = <<>> THEN <<"'", "'">>
    ELSE IF \A i \in DOMAIN text : text[i] \notin UnsafeChars THEN text
    ELSE <<"'">> \o replace_quote(text) \o <<"'">>

\* Path(path).name: the last component, trailing slashes dropped
RECURSIVE path_name(_)
path_name(path) ==
    IF path = <<>> THEN <<>>
    ELSE IF path[Len(path)] = "/" THEN path_name(SubSeq(path, 1, Len(path) - 1))
    ELSE IF \A i \in DOMAIN path : path[i] # "/" THEN path
    ELSE LET i == CHOOSE j \in DOMAIN path :
                      path[j] = "/"
                          /\ \A k \in (j + 1)..Len(path) : path[k] # "/"
         IN SubSeq(path, i + 1, Len(path))

\* name.rfind("."), counted from 1; 0 when there is none
rfind_dot(name) ==
    IF \A i \in DOMAIN name : name[i] # "." THEN 0
    ELSE CHOOSE j \in DOMAIN name :
             name[j] = "." /\ \A k \in (j + 1)..Len(name) : name[k] # "."

\* Path(path).suffix: from the last dot of the name on, unless that dot is
\* the name's first or last character
suffix(path) ==
    LET name == path_name(path)
        i == rfind_dot(name)
    IN IF 1 < i /\ i < Len(name) THEN SubSeq(name, i, Len(name)) ELSE <<>>

\* Path(path).stem
stem(path) ==
    LET name == path_name(path)
        i == rfind_dot(name)
    IN IF 1 < i /\ i < Len(name) THEN SubSeq(name, 1, i - 1) ELSE name

\* " ".join(shlex.quote(item) for item in command)
quoted(command) ==
    join(<<" ">>, [i \in DOMAIN command |-> shlex_quote(command[i])])

\* DockerSandbox.execute_file: the command it passes to exec
execute_file(session_id, path, args) ==
    LET extension == suffix(path)
        output_path == <<"/", "tmp", "/">> \o stem(path) \o <<"-">>
                           \o session_id \o <<".", "out">>
    IN IF extension = <<".", "sh">> THEN <<<<"sh">>, path>> \o args
       ELSE IF extension = <<".", "py">> THEN <<<<"python">>, path>> \o args
       ELSE IF extension = <<".", "js">> THEN <<<<"node">>, path>> \o args
       ELSE IF extension = <<".", "c">>
       THEN <<<<"sh">>, <<"-", "c">>,
              quoted(<<<<"cc">>, path, <<"-", "o">>, output_path>>)
                  \o <<" ", "&&", " ">>
                  \o quoted(<<output_path>> \o args)>>
       ELSE <<<<"sh">>, <<"-", "c">>,
              quoted(<<<<"chmod">>, <<"+", "x">>, path>>)
                  \o <<" ", "&&", " ">>
                  \o quoted(<<path>> \o args)>>

\* DockerSandbox.write_file: the command it passes to exec
write_file(path, content) ==
    <<<<"sh">>, <<"-", "lc">>,
      <<"cat", " ", ">", " ">> \o shlex_quote(path)
          \o <<" ", "<<", " ", "'", "EOF", "'", "\n">> \o content
          \o <<"\n", "EOF">>>>

\* DockerSandbox.read_file: the command it passes to exec
read_file(path) ==
    <<<<"sh">>, <<"-", "lc">>, <<"cat", " ">> \o shlex_quote(path)>>

(* ------------------------------ the shell ----------------------------- *)
\* What sh in the container does with the script of sh -c / sh -lc.

\* a word of a command line: its text after quote removal, and whether any
\* part of it was quoted
Word(text, is_quoted) == [text |-> text, quoted |-> is_quoted]

\* The words of one line: blanks separate words; '...' and "..." keep what
\* they enclose.  The shell reads the characters lo..hi of line from left
\* to right, starting in s; s.word is the word being read (s.open: one is
\* being read), s.state is "plain", "single" or "double", s.words are the
\* words read so far.  A range of several characters is read as its left
\* half, then its right half from where the left half ended.
RECURSIVE sh_scan(_, _, _, _)
sh_scan(line, lo, hi, s) ==
    IF lo > hi THEN s
    ELSE IF lo < hi
    THEN LET mid == (lo + hi) \div 2
             left == sh_scan(line, lo, mid, s)
         IN IF left.state \in {"plain", "single", "double"}
            THEN sh_scan(line, mid + 1, hi, left)
            ELSE left
    ELSE LET c == line[lo]
         IN IF s.state = "plain" /\ c = " "
            THEN [word |-> Word(<<>>, FALSE), open |-> FALSE,
                  state |-> "plain",
                  words |-> IF s.open THEN Append(s.words, s.word)
                            ELSE s.words]
            ELSE IF s.state = "plain" /\ c = "'"
            THEN [word |-> Word(s.word.text, TRUE), open |-> TRUE,
                  state |-> "single", words |-> s.words]
            ELSE IF s.state = "plain" /\ c = "\""
            THEN [word |-> Word(s.word.text, TRUE), open |-> TRUE,
                  state |-> "double", words |-> s.words]
            ELSE IF (s.state = "single" /\ c = "'")
                        \/ (s.state = "double" /\ c = "\"")
            THEN [word |-> s.word, open |-> TRUE, state |-> "plain",
                  words |-> s.words]
            ELSE [word |-> Word(s.word.text \o <<c>>, s.word.quoted),
                  open |-> TRUE, state |-> s.state, words |-> s.words]

sh_words(line) ==
    LET s == sh_scan(line, 1, Len(line),
                     [word |-> Word(<<>>, FALSE), open |-> FALSE,
                      state |-> "plain", words |-> <<>>])
    IN IF s.open THEN Append(s.words, s.word) ELSE s.words

\* the unquoted word op is an operator of the shell
IsOp(word, op) == ~word.quoted /\ word.text = <<op>>

\* the simple commands of an and-list: the words between the && operators,
\* each command the sequence of its words' texts
RECURSIVE sh_and_list(_)
sh_and_list(words) ==
    IF \A i \in DOMAIN words : ~IsOp(words[i], "&&")
    THEN <<[i \in DOMAIN words |-> words[i].text]>>
    ELSE LET i == CHOOSE j \in DOMAIN words :
                      /\ IsOp(words[j], "&&")
                      /\ \A k \in 1..(j - 1) : ~IsOp(words[k], "&&")
         IN <<[k \in 1..(i - 1) |-> words[k].text]>>
                \o sh_and_list(SubSeq(words, i + 1, Len(words)))

\* the lines of text, each followed by a newline
RECURSIVE unlines(_)
unlines(lines) ==
    IF lines = <<>> THEN <<>>
    ELSE Head(lines) \o <<"\n">> \o unlines(Tail(lines))

\* sh -lc script for the scripts of write_file and read_file.
\*   cat > target << 'delimiter': the here-document is every line after the
\*   first up to the first line that is the delimiter alone; cat copies it,
\*   each line with its newline, to target; the shell then goes on with the
\*   lines after the delimiter as commands (extra).
\*   cat target: the content of target is the output.
sh_lc(script, fs) ==
    LET lines == split(script, "\n")
        words == sh_words(lines[1])
        body == Tail(lines)
        ends == {j \in DOMAIN body : body[j] = words[5].text}
        end == IF ends = {} THEN Len(body) + 1
               ELSE CHOOSE j \in ends : \A k \in ends : j <= k
    IN IF Len(words) = 5 /\ IsOp(words[2], ">") /\ IsOp(words[4], "<<")
       THEN [files |-> od_set(fs, words[3].text,
                              unlines(SubSeq(body, 1, end - 1))),
             output |-> <<>>,
             extra |-> SelectSeq(SubSeq(body, end + 1, Len(body)),
                                 LAMBDA l : l # <<>>),
             failed |-> FALSE]
       ELSE IF od_has(fs, words[2].text)
       THEN [files |-> fs, output |-> od_get(fs, words[2].text),
             extra |-> <<>>, failed |-> FALSE]
       ELSE [files |-> fs, output |-> <<>>, extra |-> <<>>, failed |-> TRUE]

(* ----------------------------- manager.py ---------------------------- *)

\* SandboxManager._make_key
_make_key(agent_name, session_id) == agent_name \o <<":">> \o session_id

Identities == Agents \X Sessions

\* a touch that starts the entry anew
update_access_anew(item, t) ==
    [item EXCEPT !.created_at = t, !.last_accessed = t, !.access_count = 1]

\* SandboxPoolItem.update_access
update_access(item, t) ==
    [item EXCEPT !.last_accessed = t, !.access_count = @ + 1]

\* SandboxPoolItem(...) as get_sandbox builds it for a new key
SandboxPoolItem(sandbox, agent_name, session_id, t) ==
    [sandbox |-> sandbox, agent_name |-> agent_name, session_id |-> session_id,
     created_at |-> t, last_accessed |-> t, access_count |-> 1]

\* a soft eviction that takes the most recently used entry
\* (popitem(last=True))
_evict_mru(pool, evicted) ==
    IF pool = <<>>
    THEN [pool |-> pool, evicted |-> evicted]
    ELSE [pool |-> SubSeq(pool, 1, Len(pool) - 1),
          evicted |-> od_set(evicted, pool[Len(pool)].key,
                             pool[Len(pool)].item)]

\* SandboxManager._evict_lru on the two tiers
_evict_lru(pool, evicted) ==
    IF pool = <<>>
    THEN [pool |-> pool, evicted |-> evicted]
    ELSE [pool |-> Tail(pool),
          evicted |-> od_set(evicted, Head(pool).key, Head(pool).item)]

\* What one get_sandbox call does:
\*   path : the branch taken (hit, revived, ValueError, DaemonError, admitted);
\*   sandbox : the DockerSandbox returned (NoSandbox when the call raises);
\*   pool, evicted, containers, calls : as in Effect below
Out(path, sandbox, pool, evicted, d, calls) ==
    [path |-> path, sandbox |-> sandbox, pool |-> pool, evicted |-> evicted,
     containers |-> d, calls |-> calls]

NoSandbox == [id |-> <<>>, session_id |-> <<>>, container_name |-> <<>>]

\* an active hit that touches the entry and leaves it where it is
get_sandbox_hit_in_place(pool, evicted, d, key, t) ==
    LET item == update_access(od_get(pool, key), t)
    IN Out("hit", item.sandbox, od_set(pool, key, item), evicted, d, <<>>)

\* get_sandbox, key in _pool: touch, move to the end, return item.sandbox
get_sandbox_hit(pool, evicted, d, key, t) ==
    LET item == update_access(od_get(pool, key), t)
    IN Out("hit", item.sandbox, move_to_end(od_set(pool, key, item), key),
           evicted, d, <<>>)

\* a revival that pops the oldest evicted entry (popitem(last=False))
\* instead of the key's
get_sandbox_revive_oldest(pool, evicted, d, key, t) ==
    LET item == update_access(Head(evicted).item, t)
    IN Out("revived", item.sandbox,
           move_to_end(od_set(pool, key, item), key), Tail(evicted), d, <<>>)

\* a revival that moves the entry without touching it
get_sandbox_revive_untouched(pool, evicted, d, key, t) ==
    LET item == od_get(evicted, key)
    IN Out("revived", item.sandbox,
           move_to_end(od_set(pool, key, item), key), od_pop(evicted, key),
           d, <<>>)

\* a revival that reads the evicted entry and leaves it in _evicted
get_sandbox_revive_keep(pool, evicted, d, key, t) ==
    LET item == update_access(od_get(evicted, key), t)
    IN Out("revived", item.sandbox,
           move_to_end(od_set(pool, key, item), key), evicted, d, <<>>)

\* get_sandbox, key in _evicted: pop, touch, put at the end of _pool
get_sandbox_revive(pool, evicted, d, key, t) ==
    LET item == update_access(od_get(evicted, key), t)
    IN Out("revived", item.sandbox,
           move_to_end(od_set(pool, key, item), key), od_pop(evicted, key),
           d, <<>>)

\* a ValueError raised after the capacity check instead of before it
get_sandbox_raise_late(pool, evicted, d, cap) ==
    LET room == IF Len(pool) >= cap THEN _evict_lru(pool, evicted)
                ELSE [pool |-> pool, evicted |-> evicted]
    IN Out("ValueError", NoSandbox, room.pool, room.evicted, d, <<>>)

\* get_sandbox, unknown key and config is None: raise ValueError
get_sandbox_raise(pool, evicted, d, cap) ==
    Out("ValueError", NoSandbox, pool, evicted, d, <<>>)

\* a capacity check that lets the active tier grow one past capacity
get_sandbox_make_room_over(pool, evicted, cap) ==
    IF Len(pool) > cap THEN _evict_lru(pool, evicted)
    ELSE [pool |-> pool, evicted |-> evicted]

\* get_sandbox, new key: the capacity check before the construction
get_sandbox_make_room(pool, evicted, cap) ==
    IF Len(pool) >= cap THEN _evict_lru(pool, evicted)
    ELSE [pool |-> pool, evicted |-> evicted]

\* get_sandbox, new key: make room, construct, insert at the end; a failure
\* of the construction propagates after the capacity check
\* an admission that keeps an entry for the key when the construction failed
get_sandbox_admit_track_failed(pool, evicted, d, cap, agent_name, session_id, config, id, t, accept) ==
    LET key == _make_key(agent_name, session_id)
        room == get_sandbox_make_room(pool, evicted, cap)
        built == DockerSandbox(config, id, d, accept)
        item == SandboxPoolItem(built.sandbox, agent_name, session_id, t)
    IN Out(IF built.raised THEN "DaemonError" ELSE "admitted",
           IF built.raised THEN NoSandbox ELSE built.sandbox,
           move_to_end(od_set(room.pool, key, item), key), room.evicted,
           built.containers, built.calls)

get_sandbox_admit(pool, evicted, d, cap, agent_name, session_id, config, id, t, accept) ==
    LET key == _make_key(agent_name, session_id)
        room == get_sandbox_make_room(pool, evicted, cap)
        built == DockerSandbox(config, id, d, accept)
        item == SandboxPoolItem(built.sandbox, agent_name, session_id, t)
    IN IF built.raised
       THEN Out("DaemonError", NoSandbox, room.pool, room.evicted,
                built.containers, built.calls)
       ELSE Out("admitted", built.sandbox,
                move_to_end(od_set(room.pool, key, item), key), room.evicted,
                built.containers, built.calls)

\* SandboxManager.get_sandbox
get_sandbox(pool, evicted, d, cap, agent_name, session_id, config, id, t, accept) ==
    LET key == _make_key(agent_name, session_id)
    IN IF od_has(pool, key) THEN get_sandbox_hit(pool, evicted, d, key, t)
       ELSE IF od_has(evicted, key)
       THEN get_sandbox_revive(pool, evicted, d, key, t)
       ELSE IF config = None THEN get_sandbox_raise(pool, evicted, d, cap)
       ELSE get_sandbox_admit(pool, evicted, d, cap, agent_name, session_id,
                              config, id, t, accept)

\* a mark_sandbox that touches the entry and leaves it where it is
mark_sandbox_in_place(pool, key, t) ==
    IF od_has(pool, key)
    THEN od_set(pool, key, update_access(od_get(pool, key), t))
    ELSE pool

\* a mark_sandbox that also brings an evicted or unknown key's position
\* forward: it drops the oldest active entry when the key is not active
mark_sandbox_or_drop(pool, key, t) ==
    IF od_has(pool, key)
    THEN move_to_end(od_set(pool, key, update_access(od_get(pool, key), t)),
                     key)
    ELSE IF pool = <<>> THEN pool ELSE Tail(pool)

\* SandboxManager.mark_sandbox: touch and move to the end, _pool only
mark_sandbox(pool, key, t) ==
    IF od_has(pool, key)
    THEN move_to_end(od_set(pool, key, update_access(od_get(pool, key), t)),
                     key)
    ELSE pool

\* key.split(":", 1) as clear_pool uses it
split_colon(key) ==
    LET i == CHOOSE j \in DOMAIN key :
                 key[j] = ":" /\ \A k \in 1..(j - 1) : key[k] # ":"
    IN <<SubSeq(key, 1, i - 1), SubSeq(key, i + 1, Len(key))>>

\* The effect of one call on the manager and the daemon:
\*   pool, evicted : the two tiers;  containers : the daemon's records;
\*   calls : the requests sent to the daemon;  closed : the ids of the
\*   sandboxes close() was called on, in the order of the calls;
\*   found : remove_sandbox's result
Effect(pool, evicted, d, calls, closed, found) ==
    [pool |-> pool, evicted |-> evicted, containers |-> d, calls |-> calls,
     closed |-> closed, found |-> found]

\* a remove_sandbox that looks in the active tier only
remove_sandbox_active_only(pool, evicted, d, key, stop_ok, remove_ok) ==
    IF od_has(pool, key)
    THEN LET c == close(od_get(pool, key).sandbox, d, stop_ok, remove_ok)
         IN Effect(od_pop(pool, key), evicted, c.containers, c.calls,
                   <<od_get(pool, key).sandbox.id>>, TRUE)
    ELSE Effect(pool, evicted, d, <<>>, <<>>, FALSE)

\* a remove_sandbox that closes the sandbox and keeps its entry
remove_sandbox_keep_entry(pool, evicted, d, key, stop_ok, remove_ok) ==
    IF od_has(pool, key)
    THEN LET c == close(od_get(pool, key).sandbox, d, stop_ok, remove_ok)
         IN Effect(pool, evicted, c.containers, c.calls,
                   <<od_get(pool, key).sandbox.id>>, TRUE)
    ELSE IF od_has(evicted, key)
    THEN LET c == close(od_get(evicted, key).sandbox, d, stop_ok, remove_ok)
         IN Effect(pool, evicted, c.containers, c.calls,
                   <<od_get(evicted, key).sandbox.id>>, TRUE)
    ELSE Effect(pool, evicted, d, <<>>, <<>>, FALSE)

\* remove_sandbox: the active tier first, then the evicted tier
remove_sandbox(pool, evicted, d, key, stop_ok, remove_ok) ==
    IF od_has(pool, key)
    THEN LET c == close(od_get(pool, key).sandbox, d, stop_ok, remove_ok)
         IN Effect(od_pop(pool, key), evicted, c.containers, c.calls,
                   <<od_get(pool, key).sandbox.id>>, TRUE)
    ELSE IF od_has(evicted, key)
    THEN LET c == close(od_get(evicted, key).sandbox, d, stop_ok, remove_ok)
         IN Effect(pool, od_pop(evicted, key), c.containers, c.calls,
                   <<od_get(evicted, key).sandbox.id>>, TRUE)
    ELSE Effect(pool, evicted, d, <<>>, <<>>, FALSE)

\* a sweep loop without the try/except: the first failing stop or remove
\* ends the loop
RECURSIVE sweep_until_failure(_, _, _, _, _)
sweep_until_failure(keys, evicted, d, stop_oks, remove_oks) ==
    IF keys = <<>>
    THEN [pool |-> <<>>, evicted |-> evicted, containers |-> d,
          calls |-> <<>>, closed |-> <<>>, found |-> FALSE, cleaned |-> 0]
    ELSE LET sb == od_get(evicted, Head(keys)).sandbox
             c == close(sb, d, sb.id \in stop_oks, sb.id \in remove_oks)
             rest == IF c.stop_raised \/ c.remove_raised
                     THEN sweep_until_failure(<<>>,
                              od_pop(evicted, Head(keys)), c.containers,
                              stop_oks, remove_oks)
                     ELSE sweep_until_failure(Tail(keys),
                              od_pop(evicted, Head(keys)), c.containers,
                              stop_oks, remove_oks)
         IN [pool |-> <<>>, evicted |-> rest.evicted,
             containers |-> rest.containers, calls |-> c.calls \o rest.calls,
             closed |-> <<sb.id>> \o rest.closed, found |-> FALSE,
             cleaned |-> 1 + rest.cleaned]

\* The effect of a sweep: an Effect and cleaned, the entries whose close()
\* returned without raising (cleaned_count of cleanup_idle_sandboxes)
Swept(evicted, d, calls, closed, cleaned) ==
    [pool |-> <<>>, evicted |-> evicted, containers |-> d, calls |-> calls,
     closed |-> closed, found |-> FALSE, cleaned |-> cleaned]

\* the loop of the two sweeps: pop each key from _evicted, then close its
\* sandbox inside try/except; stop_oks and remove_oks are the sandboxes
\* whose stop and remove the daemon accepts
RECURSIVE sweep(_, _, _, _, _)
sweep(keys, evicted, d, stop_oks, remove_oks) ==
    IF keys = <<>>
    THEN Swept(evicted, d, <<>>, <<>>, 0)
    ELSE LET sb == od_get(evicted, Head(keys)).sandbox
             c == close(sb, d, sb.id \in stop_oks, sb.id \in remove_oks)
             rest == sweep(Tail(keys), od_pop(evicted, Head(keys)),
                           c.containers, stop_oks, remove_oks)
         IN Swept(rest.evicted, rest.containers, c.calls \o rest.calls,
                  <<sb.id>> \o rest.closed,
                  (IF c.raised THEN 0 ELSE 1) + rest.cleaned)

\* a selection that takes the entries idle for idle_timeout or longer
keys_to_remove_at(evicted, current_time, idle_timeout) ==
    LET idle == SelectSeq(evicted,
                   LAMBDA e : current_time - e.item.last_accessed >= idle_timeout)
    IN [i \in DOMAIN idle |-> idle[i].key]

\* cleanup_idle_sandboxes: the keys of the evicted entries idle for longer
\* than idle_timeout, in the order of _evicted
keys_to_remove(evicted, current_time, idle_timeout) ==
    LET idle == SelectSeq(evicted,
                   LAMBDA e : current_time - e.item.last_accessed > idle_timeout)
    IN [i \in DOMAIN idle |-> idle[i].key]

cleanup_idle_sandboxes(evicted, d, current_time, idle_timeout, stop_oks, remove_oks) ==
    sweep(keys_to_remove(evicted, current_time, idle_timeout), evicted, d,
          stop_oks, remove_oks)

\* a sweep of every evicted entry but those touched last
cleanup_all_but_newest(evicted, d, stop_oks, remove_oks) ==
    LET old == SelectSeq(evicted,
                  LAMBDA e : \E f \in DOMAIN evicted :
                      evicted[f].item.last_accessed > e.item.last_accessed)
    IN sweep([i \in DOMAIN old |-> old[i].key], evicted, d,
             stop_oks, remove_oks)

\* cleanup_all_evicted: every key of _evicted
cleanup_all_evicted(evicted, d, stop_oks, remove_oks) ==
    sweep([i \in DOMAIN evicted |-> evicted[i].key], evicted, d,
          stop_oks, remove_oks)

\* clear_pool(close_containers=True), the loop over list(self._pool.keys())
RECURSIVE clear_active(_, _, _, _, _, _)
clear_active(keys, pool, evicted, d, stop_oks, remove_oks) ==
    IF keys = <<>>
    THEN Effect(pool, evicted, d, <<>>, <<>>, FALSE)
    ELSE LET parts == split_colon(Head(keys))
             key == _make_key(parts[1], parts[2])
             tracked == IF od_has(pool, key) THEN pool ELSE evicted
             id == IF od_has(tracked, key)
                   THEN od_get(tracked, key).sandbox.id ELSE <<>>
             one == remove_sandbox(pool, evicted, d, key,
                                   id \in stop_oks, id \in remove_oks)
             rest == clear_active(Tail(keys), one.pool, one.evicted,
                                  one.containers, stop_oks, remove_oks)
         IN Effect(rest.pool, rest.evicted, rest.containers,
                   one.calls \o rest.calls, one.closed \o rest.closed, FALSE)

\* a clear_pool that closes the active entries and only forgets the
\* evicted ones
clear_pool_active_only(pool, evicted, d, close_containers, stop_oks, remove_oks) ==
    IF close_containers
    THEN LET a == clear_active([i \in DOMAIN pool |-> pool[i].key], pool,
                               evicted, d, stop_oks, remove_oks)
         IN Effect(a.pool, <<>>, a.containers, a.calls, a.closed, FALSE)
    ELSE Effect(<<>>, <<>>, d, <<>>, <<>>, FALSE)

clear_pool(pool, evicted, d, close_containers, stop_oks, remove_oks) ==
    IF close_containers
    THEN LET a == clear_active([i \in DOMAIN pool |-> pool[i].key], pool,
                               evicted, d, stop_oks, remove_oks)
             e == cleanup_all_evicted(a.evicted, a.containers,
                                      stop_oks, remove_oks)
         IN Effect(a.pool, e.evicted, e.containers, a.calls \o e.calls,
                   a.closed \o e.closed, FALSE)
    ELSE Effect(<<>>, <<>>, d, <<>>, <<>>, FALSE)

(* --------------------------- introspection --------------------------- *)

\* datetime.fromtimestamp(t).isoformat(): the text of the instant t
isoformat(t) == <<"iso", t>>

\* the record get_pool_info and get_evicted_info build for one entry
info_record(item, t, status) ==
    [agent_name |-> item.agent_name, session_id |-> item.session_id,
     created_at |-> isoformat(item.created_at),
     last_accessed |-> isoformat(item.last_accessed),
     access_count |-> item.access_count,
     idle_seconds |-> t - item.last_accessed, status |-> status]

\* get_pool_info at time t: a dict, in the order of the tier
get_pool_info(pool, t) ==
    [i \in DOMAIN pool |->
        [key |-> pool[i].key, item |-> info_record(pool[i].item, t, "active")]]

\* get_evicted_info at time t
get_evicted_info(evicted, t) ==
    [i \in DOMAIN evicted |->
        [key |-> evicted[i].key,
         item |-> info_record(evicted[i].item, t, "evicted")]]

\* info.update(other)
RECURSIVE dict_update(_, _)
dict_update(info, other) ==
    IF other = <<>>
    THEN info
    ELSE dict_update(od_set(info, Head(other).key, Head(other).item),
                     Tail(other))

\* a snapshot of the active tier alone
get_all_sandboxes_info_active(pool, evicted, t) ==
    dict_update(<<>>, get_pool_info(pool, t))

\* get_all_sandboxes_info at time t
get_all_sandboxes_info(pool, evicted, t) ==
    dict_update(dict_update(<<>>, get_pool_info(pool, t)),
                get_evicted_info(evicted, t))

get_pool_size(pool) == Len(pool)

get_evicted_size(evicted) == Len(evicted)

get_total_size(pool, evicted) == Len(pool) + Len(evicted)

is_pool_full(pool, cap) == Len(pool) >= cap

has_sandbox(pool, evicted, agent_name, session_id) ==
    LET key == _make_key(agent_name, session_id)
    IN od_has(pool, key) \/ od_has(evicted, key)

(* ----------------------------- client.py ----------------------------- *)

\* what a call hands its caller: the value returned, or the exception raised
Returned(value) == [path |-> "returned", value |-> value]

Raised(exception) == [path |-> exception, value |-> None]

\* the DockerClient that docker.from_env() builds in the attempt-th attempt
\* of the call-th init_docker_client call
DockerClient(call, attempt) == [call |-> call, attempt |-> attempt]

\* a budget that allows one more attempt than retries
exhausted_late(attempt, retries) == attempt > retries

\* init_docker_client: attempt >= retries, after a failed attempt
exhausted(attempt, retries) == attempt >= retries

\* init_docker_client: delay = base_delay * (2 ** (attempt - 1))
delay(base_delay, attempt) == base_delay * 2^(attempt - 1)

\* The frame of an init_docker_client call.  at: idle (no call yet),
\* attempt (before docker.from_env() and ping()), sleep (before
\* time.sleep(delay)), returned, raised (RuntimeError); attempt: the loop
\* variable; outcomes: the attempts made, "ok" or "DockerException" each;
\* slept: the delays slept; result: the client returned
Boot(call, at, retries, base_delay, attempt, outcomes, slept, result) ==
    [call |-> call, at |-> at, retries |-> retries,
     base_delay |-> base_delay, attempt |-> attempt, outcomes |-> outcomes,
     slept |-> slept, result |-> result]

BootIdle == Boot(0, "idle", 0, 0, 0, <<>>, <<>>, None)

\* init_docker_client(retries, base_delay) up to its first attempt
init_docker_client(cached, call, retries, base_delay) ==
    IF cached # None
    THEN Boot(call, "returned", retries, base_delay, 0, <<>>, <<>>, cached)
    ELSE IF retries < 1
    THEN Boot(call, "raised", retries, base_delay, 0, <<>>, <<>>, None)
    ELSE Boot(call, "attempt", retries, base_delay, 1, <<>>, <<>>, None)

\* get_docker_client()
get_docker_client(cached) ==
    IF cached = None THEN Raised("RuntimeError") ELSE Returned(cached)

(* ------------------------ manager.py: singleton ---------------------- *)

\* a SandboxManager that takes docker_client as it is given
SandboxManager_as_given(capacity, docker_client, cached) ==
    Returned([capacity |-> capacity, _docker_client |-> docker_client])

\* SandboxManager(capacity, docker_client): the object, its tiers empty;
\* cached is client.py's _docker_client
SandboxManager(capacity, docker_client, cached) ==
    LET client == IF docker_client # None THEN Returned(docker_client)
                  ELSE get_docker_client(cached)
    IN IF client.path = "returned"
       THEN Returned([capacity |-> capacity, _docker_client |-> client.value])
       ELSE client

\* an init_sandbox_manager that builds a new pool at every call
init_sandbox_manager_anew(manager, capacity, docker_client, cached) ==
    LET m == SandboxManager(capacity, docker_client, cached)
    IN [path |-> m.path, value |-> m.value, manager |-> m.value]

\* init_sandbox_manager(capacity, docker_client); manager is the value of
\* _sandbox_manager before the call and, in the answer, after it
init_sandbox_manager(manager, capacity, docker_client, cached) ==
    IF manager # None
    THEN [path |-> "returned", value |-> manager, manager |-> manager]
    ELSE LET m == SandboxManager(capacity, docker_client, cached)
         IN [path |-> m.path, value |-> m.value, manager |-> m.value]

\* get_sandbox_manager()
get_sandbox_manager(manager) ==
    IF manager = None THEN Raised("RuntimeError") ELSE Returned(manager)

(* ------------------------------- state ------------------------------- *)

VARIABLES
    capacity,      \* SandboxManager.capacity
    _pool,         \* the active tier
    _evicted,      \* the evicted tier
    containers,    \* the daemon: container name -> absent, running, exited
    now,           \* the value time.time() returns
    accesses,      \* the admissions and touches made so far
    close_count,   \* per sandbox object, the close() calls made on it
    last,          \* the call that is returning: operation, key, branch,
                   \* result and daemon requests; Idle between two calls
    first_admitted,\* per key, the sandbox of its first admission since a close
    admitted,      \* per key, the sandbox of its latest admission
    get_order,     \* tracked keys, oldest get_sandbox touch first
    touch_order,   \* active keys, oldest touch (get_sandbox or mark) first
    callers,       \* per thread that runs bash(): where it is in
                   \* get_sandbox and sandbox.bash, and its locals
    sweeper,       \* the thread that runs cleanup_idle_sandboxes: where it
                   \* is, and its locals
    lifespan,      \* the process that holds the pool: which program it
                   \* runs, its clean_up_sandboxes task, where its lifespan
                   \* is, and its docker client
    input,         \* the arguments of the Sandbox method under study
    files,         \* the files of the container, path -> content
    _docker_client,   \* client.py: the cached DockerClient, or None
    _sandbox_manager, \* manager.py: the singleton SandboxManager, or None
    boot,          \* the init_docker_client call in progress or just ended
    _trace,        \* storage.py: the ContextVar current_trace
    _steps,        \* storage.py: the ContextVar steps_calling_stack
    sync_client,   \* the steps and traces logged through the client
    wrappers,      \* the calls of tracked functions in progress, the
                   \* outermost first
    generated      \* the ids generate_id has handed out

vars == <<capacity, _pool, _evicted, containers, now, accesses, close_count,
          last, first_admitted, admitted, get_order, touch_order, callers,
          sweeper, lifespan, input, files, _docker_client, _sandbox_manager,
          boot, _trace, _steps, sync_client, wrappers, generated>>

\* the state of the bootstrap of a process
bootstrap == <<_docker_client, _sandbox_manager, boot>>

\* the state of the tracker
tracking == <<_trace, _steps, sync_client, wrappers, generated>>

\* the keys of a tier, in its order
KeySeq(od) == [i \in DOMAIN od |-> od[i].key]

\* the keys either tier tracks
TrackedKeys == od_keys(_pool) \cup od_keys(_evicted)

AllKeys == {_make_key(i[1], i[2]) : i \in Identities}

\* The identity of a DockerSandbox object: the key it was built for and a
\* number that no object still referenced for that key carries.
SandboxIds == AllKeys \X (1..MaxLive)

\* the identity of a newly constructed object
FreshId(key) ==
    LET live == {first_admitted[key].id, admitted[key].id}
    IN <<key, CHOOSE g \in 1..MaxLive :
                 /\ <<key, g>> \notin live
                 /\ \A h \in 1..(g - 1) : <<key, h>> \in live>>

\* A returning call: the operation, its key and config arguments, the
\* branch it took, the sandbox or number it returns, the requests it sent
\* to the daemon and the sandboxes it called close() on
Call(op, key, config, path, sandbox, count, calls, closed) ==
    [op |-> op, key |-> key, config |-> config, path |-> path,
     sandbox |-> sandbox, count |-> count, calls |-> calls,
     closed |-> closed]

\* no call is returning
Idle == Call("idle", <<>>, None, "idle", NoSandbox, 0, <<>>, <<>>)

\* s without key
Without(s, key) == SelectSeq(s, LAMBDA k : k # key)

\* s with key moved (or added) to its end
ToEnd(s, key) == Append(Without(s, key), key)

\* s restricted to the keys of the tier od
Within(s, od) == SelectSeq(s, LAMBDA k : od_has(od, k))

\* s restricted to the keys one of the two tiers tracks
Tracked(s, pool, evicted) ==
    SelectSeq(s, LAMBDA k : od_has(pool, k) \/ od_has(evicted, k))

\* close_count after close() was called on the sandboxes listed in ids
Counted(cc, ids) ==
    [i \in DOMAIN cc |->
        cc[i] + Cardinality({j \in DOMAIN ids : ids[j] = i})]

\* first_admitted after close() was called on the sandboxes listed in ids
\* (the identity of a sandbox starts with the key it was built for)
Forget(adm, ids) ==
    [k \in DOMAIN adm |->
        IF \E j \in DOMAIN ids : ids[j][1] = k THEN NoSandbox ELSE adm[k]]

\* admitted restricted to the keys the two tiers track
Kept(adm, pool, evicted) ==
    [k \in DOMAIN adm |->
        IF od_has(pool, k) \/ od_has(evicted, k) THEN adm[k] ELSE NoSandbox]

\* the threads of one process that call bash()
Callers == {1, 2}

\* A thread of bash(): at is the statement it is about to run,
\*   idle      : no call in progress
\*   construct : get_sandbox found the key in neither tier and made room;
\*               DockerSandbox(config) is about to ask the daemon in_use
\*   launch    : in_use answered; restart() or run() is about to be sent
\*   insert    : the Sandbox is built; the entry is about to be inserted
\*   got       : get_sandbox returned sandbox; sandbox.bash is about to run
\*   raised    : get_sandbox or sandbox.bash raised
\*   exec      : the command runs in the container
\* rival: another thread was building a Sandbox for the same key while this
\* one was
Caller(at, key, config, used, sandbox, rival) ==
    [at |-> at, key |-> key, config |-> config, used |-> used,
     sandbox |-> sandbox, rival |-> rival]

CallerIdle == Caller("idle", <<>>, None, FALSE, NoSandbox, FALSE)

\* The thread of cleanup_idle_sandboxes: at is idle, loop (before
\* self._evicted.pop(key) of the next key), close (before
\* item.sandbox.close()) or raised; keys is what is left of
\* keys_to_remove, sandbox the Sandbox of the popped item, closed the
\* sandboxes closed by this sweep, cleaned is cleaned_count
Sweeper(at, keys, sandbox, closed, cleaned) ==
    [at |-> at, keys |-> keys, sandbox |-> sandbox, closed |-> closed,
     cleaned |-> cleaned]

SweeperIdle == Sweeper("idle", <<>>, NoSandbox, {}, 0)

\* init_sandbox_manager(capacity): an empty pool, no container at the daemon
InitManager ==
    /\ callers = [t \in Callers |-> CallerIdle]
    /\ sweeper = SweeperIdle
    /\ capacity \in Capacities
    /\ _pool = <<>>
    /\ _evicted = <<>>
    /\ containers = [n \in ContainerNames |-> "absent"]
    /\ now = 0
    /\ accesses = 0
    /\ close_count = [i \in SandboxIds |-> 0]
    /\ last = Idle
    /\ first_admitted = [k \in AllKeys |-> NoSandbox]
    /\ admitted = [k \in AllKeys |-> NoSandbox]
    /\ get_order = <<>>
    /\ touch_order = <<>>

\* The process that holds the pool.  process: "api", the FastAPI application
\* of api/main.py, or "celery", a worker of kubent_celery/celery_app.py;
\* task: its clean_up_sandboxes task ("none" where none is created);
\* at: where its lifespan is; docker_client: "open" or "closed"
Lifespan(process, task, at, docker_client) ==
    [process |-> process, task |-> task, at |-> at,
     docker_client |-> docker_client]

Processes == {"api", "celery"}

\* the process after its start-up: lifespan() up to its yield creates the
\* task, setup_sandbox creates none
Started(process) ==
    Lifespan(process, IF process = "api" THEN "sleeping" ELSE "none",
             "serving", "open")

\* no file in the container
NoFiles == <<>>

\* the process has run its start-up: init_docker_client() succeeded at its
\* first attempt and init_sandbox_manager(capacity, docker_client) built
\* the pool
Bootstrapped ==
    /\ _docker_client = DockerClient(1, 1)
    /\ _sandbox_manager = [capacity |-> capacity,
                           _docker_client |-> DockerClient(1, 1)]
    /\ boot = BootIdle

\* no tracked function has been called
Untracked ==
    /\ _trace = None
    /\ _steps = <<>>
    /\ sync_client = [steps |-> <<>>, traces |-> <<>>]
    /\ wrappers = <<>>
    /\ generated = 0

Init ==
    /\ InitManager
    /\ Bootstrapped
    /\ Untracked
    /\ lifespan = Started("api")
    /\ input = None
    /\ files = NoFiles

(* ------------------------------ actions ------------------------------ *)

\* time passes
Tick ==
    /\ last = Idle
    /\ now < MaxTime
    /\ now' = now + 1
    /\ UNCHANGED <<callers, sweeper, lifespan, input, files,
                   bootstrap, tracking>>
    /\ UNCHANGED <<capacity, _pool, _evicted, containers, accesses,
                   close_count, last, first_admitted, admitted, get_order,
                   touch_order>>

\* the call returns to its caller
Return ==
    /\ last # Idle
    /\ last' = Idle
    /\ UNCHANGED <<callers, sweeper, lifespan, input, files,
                   bootstrap, tracking>>
    /\ UNCHANGED <<capacity, _pool, _evicted, containers, now, accesses,
                   close_count, first_admitted, admitted, get_order,
                   touch_order>>

\* get_sandbox(agent_name, session_id, config); accept: the daemon accepts
\* the run or start request of the construction
GetSandbox(agent_name, session_id, config, accept) ==
    LET key == _make_key(agent_name, session_id)
        o == get_sandbox(_pool, _evicted, containers, capacity, agent_name,
                         session_id, config, FreshId(key), now, accept)
        touches == o.path \in {"hit", "revived", "admitted"}
    IN
    /\ last = Idle
    /\ touches => accesses < MaxAccesses
    /\ accesses' = IF touches THEN accesses + 1 ELSE accesses
    /\ _pool' = o.pool
    /\ _evicted' = o.evicted
    /\ containers' = o.containers
    /\ last' = Call("get_sandbox", key, config, o.path, o.sandbox, 0, o.calls,
                    <<>>)
    /\ close_count' = IF o.path = "admitted"
                      THEN [close_count EXCEPT ![o.sandbox.id] = 0]
                      ELSE close_count
    /\ first_admitted' =
           IF o.path = "admitted" /\ first_admitted[key] = NoSandbox
           THEN [first_admitted EXCEPT ![key] = o.sandbox]
           ELSE first_admitted
    /\ admitted' = IF o.path = "admitted"
                   THEN [admitted EXCEPT ![key] = o.sandbox]
                   ELSE admitted
    /\ get_order' = IF touches THEN ToEnd(get_order, key) ELSE get_order
    /\ touch_order' = IF touches THEN ToEnd(Within(touch_order, o.pool), key)
                      ELSE Within(touch_order, o.pool)
    /\ UNCHANGED <<capacity, now, callers, sweeper, lifespan, input, files,
                   bootstrap, tracking>>

\* mark_sandbox(agent_name, session_id)
MarkSandbox(agent_name, session_id) ==
    LET key == _make_key(agent_name, session_id)
        touches == od_has(_pool, key)
    IN
    /\ last = Idle
    /\ touches => accesses < MaxAccesses
    /\ accesses' = IF touches THEN accesses + 1 ELSE accesses
    /\ _pool' = mark_sandbox(_pool, key, now)
    /\ last' = Call("mark_sandbox", key, None,
                    IF touches THEN "touched" ELSE "absent", NoSandbox, 0,
                    <<>>, <<>>)
    /\ touch_order' = IF touches THEN ToEnd(touch_order, key) ELSE touch_order
    /\ UNCHANGED <<callers, sweeper, lifespan, input, files,
                   bootstrap, tracking>>
    /\ UNCHANGED <<capacity, _evicted, containers, now, close_count,
                   first_admitted, admitted, get_order>>

\* what a call that closes sandboxes leaves behind; config holds the
\* idle_timeout argument of cleanup_idle_sandboxes
Closing(op, key, config, path, count, e) ==
    /\ last = Idle
    /\ _pool' = e.pool
    /\ _evicted' = e.evicted
    /\ containers' = e.containers
    /\ close_count' = Counted(close_count, e.closed)
    /\ last' = Call(op, key, config, path, NoSandbox, count, e.calls, e.closed)
    /\ first_admitted' = Forget(first_admitted, e.closed)
    /\ admitted' = Kept(admitted, e.pool, e.evicted)
    /\ get_order' = Tracked(get_order, e.pool, e.evicted)
    /\ touch_order' = Within(touch_order, e.pool)
    /\ UNCHANGED <<capacity, now, accesses, callers, sweeper, input, files,
                   bootstrap, tracking>>

\* remove_sandbox(agent_name, session_id)
RemoveSandbox(agent_name, session_id, stop_ok, remove_ok) ==
    LET key == _make_key(agent_name, session_id)
        e == remove_sandbox(_pool, _evicted, containers, key, stop_ok, remove_ok)
    IN /\ Closing("remove_sandbox", key, None,
                  IF e.found THEN "True" ELSE "False", 0, e)
       /\ UNCHANGED lifespan

\* _evict_lru() called on its own
EvictLru ==
    LET r == _evict_lru(_pool, _evicted) IN
    /\ last = Idle
    /\ _pool' = r.pool
    /\ _evicted' = r.evicted
    /\ last' = Call("_evict_lru", <<>>, None,
                    IF _pool = <<>> THEN "empty" ELSE "evicted",
                    NoSandbox, 0, <<>>, <<>>)
    /\ touch_order' = Within(touch_order, r.pool)
    /\ UNCHANGED <<callers, sweeper, lifespan, input, files,
                   bootstrap, tracking>>
    /\ UNCHANGED <<capacity, containers, now, accesses, close_count,
                   first_admitted, admitted, get_order>>

\* cleanup_idle_sandboxes(idle_timeout)
CleanupIdleSandboxes(idle_timeout, stop_oks, remove_oks) ==
    LET e == cleanup_idle_sandboxes(_evicted, containers, now, idle_timeout,
                                    stop_oks, remove_oks)
    IN /\ Closing("cleanup_idle_sandboxes", <<>>,
                  [idle_timeout |-> idle_timeout], "swept", e.cleaned,
                  [e EXCEPT !.pool = _pool])
       /\ UNCHANGED lifespan

\* cleanup_all_evicted()
CleanupAllEvicted(stop_oks, remove_oks) ==
    LET e == cleanup_all_evicted(_evicted, containers, stop_oks, remove_oks)
    IN /\ Closing("cleanup_all_evicted", <<>>, None, "swept", Len(_evicted),
                  [e EXCEPT !.pool = _pool])
       /\ UNCHANGED lifespan

\* clear_pool(close_containers)
ClearPool(close_containers, stop_oks, remove_oks) ==
    LET e == clear_pool(_pool, _evicted, containers, close_containers,
                        stop_oks, remove_oks)
    IN /\ Closing("clear_pool", <<>>, None,
                  IF close_containers THEN "closed" ELSE "dropped",
                  Len(_pool) + Len(_evicted), e)
       /\ UNCHANGED lifespan

\* One call of the public surface (or of _evict_lru), a clock tick or a
\* return.  In this specification the daemon accepts every stop and remove
\* of a close(); it accepts or rejects the run or start of a construction.
Next ==
    \/ Tick
    \/ Return
    \/ \E i \in Identities, accept \in BOOLEAN :
           \E config \in ConfigsFor(i[1], i[2]) \cup {None} :
               GetSandbox(i[1], i[2], config, accept)
    \/ \E i \in Identities : MarkSandbox(i[1], i[2])
    \/ \E i \in Identities : RemoveSandbox(i[1], i[2], TRUE, TRUE)
    \/ EvictLru
    \/ \E t \in IdleTimeouts : CleanupIdleSandboxes(t, SandboxIds, SandboxIds)
    \/ CleanupAllEvicted(SandboxIds, SandboxIds)
    \/ \E close_containers \in BOOLEAN :
           ClearPool(close_containers, SandboxIds, SandboxIds)

Spec == Init /\ [][Next]_vars

\* the sandboxes a tier holds
Held(od) == {od[i].item.sandbox.id : i \in DOMAIN od}

\* The calls that close sandboxes, with a daemon that accepts or rejects
\* each stop and each remove request.
NextFail ==
    \/ Tick
    \/ Return
    \/ \E i \in Identities, accept \in BOOLEAN :
           \E config \in ConfigsFor(i[1], i[2]) \cup {None} :
               GetSandbox(i[1], i[2], config, accept)
    \/ \E i \in Identities, stop_ok \in BOOLEAN, remove_ok \in BOOLEAN :
           RemoveSandbox(i[1], i[2], stop_ok, remove_ok)
    \/ \E t \in IdleTimeouts :
           \E stop_oks \in SUBSET Held(_evicted),
              remove_oks \in SUBSET Held(_evicted) :
               CleanupIdleSandboxes(t, stop_oks, remove_oks)
    \/ \E stop_oks \in SUBSET Held(_evicted),
          remove_oks \in SUBSET Held(_evicted) :
           CleanupAllEvicted(stop_oks, remove_oks)

SpecFail == Init /\ [][NextFail]_vars

(* ------------------------------ threads ------------------------------ *)
\* get_sandbox, sandbox.bash and cleanup_idle_sandboxes run by threads of
\* one process on one SandboxManager, which holds no lock.  A thread gives
\* way to another one where it waits for the daemon (DockerSandbox(config),
\* container.exec_run, sandbox.close()) and between the statements of the
\* sweep's loops; the bookkeeping between two such points is one step.

\* what the history variables of the sequential calls do in a thread step
ThreadFrame ==
    UNCHANGED <<capacity, now, close_count, last, first_admitted, admitted,
                get_order, touch_order, lifespan, input, files,
                bootstrap, tracking>>

\* the states in which a thread is building a Sandbox for a new key
Building == {"construct", "launch", "insert"}

\* the sandboxes some thread or tier refers to
Referenced ==
    Held(_pool) \cup Held(_evicted) \cup {callers[t].sandbox.id : t \in Callers}
        \cup {sweeper.sandbox.id} \cup sweeper.closed

\* get_sandbox up to the construction (manager.py 95-119): a hit or a
\* revival returns, config=None raises, a new key makes room
Lookup(t, agent_name, session_id, config) ==
    LET key == _make_key(agent_name, session_id)
        o == IF od_has(_pool, key)
             THEN get_sandbox_hit(_pool, _evicted, containers, key, now)
             ELSE IF od_has(_evicted, key)
             THEN get_sandbox_revive(_pool, _evicted, containers, key, now)
             ELSE get_sandbox_raise(_pool, _evicted, containers, capacity)
        room == get_sandbox_make_room(_pool, _evicted, capacity)
        new == key \notin TrackedKeys /\ config # None
        rivals == {u \in Callers \ {t} :
                      callers[u].at \in Building /\ callers[u].key = key}
    IN
    /\ callers[t].at = "idle"
    /\ accesses < MaxAccesses
    /\ accesses' = accesses + 1
    /\ _pool' = IF new THEN room.pool ELSE o.pool
    /\ _evicted' = IF new THEN room.evicted ELSE o.evicted
    /\ callers' =
           [u \in Callers |->
               IF u = t
               THEN IF new
                    THEN Caller("construct", key, config, FALSE, NoSandbox,
                                rivals # {})
                    ELSE Caller(IF o.path = "ValueError" THEN "raised"
                                ELSE "got",
                                key, config, FALSE, o.sandbox, FALSE)
               ELSE IF new /\ u \in rivals
               THEN [callers[u] EXCEPT !.rival = TRUE]
               ELSE callers[u]]
    /\ UNCHANGED <<containers, sweeper>>
    /\ ThreadFrame

\* DockerSandbox.__init__: self._container.in_use (core.py 163)
Probe(t) ==
    /\ callers[t].at = "construct"
    /\ callers' =
           [callers EXCEPT
               ![t].at = "launch",
               ![t].used =
                   in_use(containers,
                          container_name(callers[t].config)).value]
    /\ UNCHANGED <<_pool, _evicted, containers, accesses, sweeper>>
    /\ ThreadFrame

\* DockerSandbox.__init__: restart() or run() (core.py 164-167); the daemon
\* accepts a start, and a run unless it already has a container of that
\* name
Launch(t) ==
    LET name == container_name(callers[t].config)
        key == callers[t].key
        accept == callers[t].used \/ containers[name] = "absent"
        made == IF callers[t].used THEN restart(containers, name, accept)
                ELSE run(containers, name, keep_alive(callers[t].config),
                         accept)
        id == <<key, CHOOSE g \in 1..MaxLive :
                        /\ <<key, g>> \notin Referenced
                        /\ \A h \in 1..(g - 1) : <<key, h>> \in Referenced>>
    IN
    /\ callers[t].at = "launch"
    /\ \E g \in 1..MaxLive : <<key, g>> \notin Referenced
    /\ containers' = made.containers
    /\ callers' =
           [callers EXCEPT
               ![t].at = IF made.raised THEN "raised" ELSE "insert",
               ![t].sandbox =
                   IF made.raised THEN NoSandbox
                   ELSE [id |-> id,
                         session_id |-> callers[t].config.session_id,
                         container_name |-> name]]
    /\ UNCHANGED <<_pool, _evicted, accesses, sweeper>>
    /\ ThreadFrame

\* get_sandbox after the construction (manager.py 122-136)
Insert(t) ==
    LET c == callers[t]
        item == SandboxPoolItem(c.sandbox, c.config.agent_name,
                                c.config.session_id, now)
    IN
    /\ c.at = "insert"
    /\ _pool' = move_to_end(od_set(_pool, c.key, item), c.key)
    /\ callers' = [callers EXCEPT ![t].at = "got"]
    /\ UNCHANGED <<_evicted, containers, accesses, sweeper>>
    /\ ThreadFrame

\* sandbox.bash(command): DockerContainer.exec (core.py 100-105) finds the
\* container, starts it when it is not running and runs the command in it
ExecStart(t) ==
    LET name == callers[t].sandbox.container_name IN
    /\ callers[t].at = "got"
    /\ containers' = IF containers[name] = "absent" THEN containers
                     ELSE [containers EXCEPT ![name] = "running"]
    /\ callers' = [callers EXCEPT
                      ![t].at = IF containers[name] = "absent" THEN "raised"
                                ELSE "exec"]
    /\ UNCHANGED <<_pool, _evicted, accesses, sweeper>>
    /\ ThreadFrame

\* the command ends, or the exception reaches the caller of bash()
Finish(t) ==
    /\ callers[t].at \in {"exec", "raised"}
    /\ callers' = [callers EXCEPT ![t] = CallerIdle]
    /\ UNCHANGED <<_pool, _evicted, containers, accesses, sweeper>>
    /\ ThreadFrame

\* cleanup_idle_sandboxes: the loop that fills keys_to_remove
\* (manager.py 208-216)
SweepSelect(idle_timeout) ==
    /\ sweeper.at = "idle"
    /\ _evicted # <<>>
    /\ sweeper' = Sweeper("loop", keys_to_remove(_evicted, now, idle_timeout),
                          NoSandbox, {}, 0)
    /\ UNCHANGED <<_pool, _evicted, containers, accesses, callers>>
    /\ ThreadFrame

\* cleanup_idle_sandboxes: item = self._evicted.pop(key) (manager.py 220),
\* KeyError when the key has left _evicted; return cleaned_count after the
\* last key
SweepPop ==
    /\ sweeper.at = "loop"
    /\ IF sweeper.keys = <<>>
       THEN /\ sweeper' = SweeperIdle
            /\ UNCHANGED _evicted
       ELSE IF od_has(_evicted, Head(sweeper.keys))
       THEN /\ sweeper' = [sweeper EXCEPT
                              !.at = "close",
                              !.sandbox =
                                  od_get(_evicted, Head(sweeper.keys)).sandbox]
            /\ _evicted' = od_pop(_evicted, Head(sweeper.keys))
       ELSE /\ sweeper' = [sweeper EXCEPT !.at = "raised"]
            /\ UNCHANGED _evicted
    /\ UNCHANGED <<_pool, containers, accesses, callers>>
    /\ ThreadFrame

\* cleanup_idle_sandboxes: item.sandbox.close() (manager.py 221-226)
SweepClose ==
    LET c == close(sweeper.sandbox, containers, TRUE, TRUE) IN
    /\ sweeper.at = "close"
    /\ containers' = c.containers
    /\ sweeper' = Sweeper("loop", Tail(sweeper.keys), NoSandbox,
                          sweeper.closed \cup {sweeper.sandbox.id},
                          sweeper.cleaned + (IF c.raised THEN 0 ELSE 1))
    /\ UNCHANGED <<_pool, _evicted, accesses, callers>>
    /\ ThreadFrame

\* the KeyError reaches the caller of cleanup_idle_sandboxes
SweepRaised ==
    /\ sweeper.at = "raised"
    /\ sweeper' = SweeperIdle
    /\ UNCHANGED <<_pool, _evicted, containers, accesses, callers>>
    /\ ThreadFrame

NextThreads ==
    \/ Tick
    \/ \E t \in Callers, i \in Identities :
           \E config \in ConfigsFor(i[1], i[2]) \cup {None} :
               Lookup(t, i[1], i[2], config)
    \/ \E t \in Callers : Probe(t)
    \/ \E t \in Callers : Launch(t)
    \/ \E t \in Callers : Insert(t)
    \/ \E t \in Callers : ExecStart(t)
    \/ \E t \in Callers : Finish(t)
    \/ \E idle_timeout \in IdleTimeouts : SweepSelect(idle_timeout)
    \/ SweepPop
    \/ SweepClose
    \/ SweepRaised

SpecThreads == Init /\ [][NextThreads]_vars

(* ------------------------------ process ------------------------------ *)
\* The process around the pool: the FastAPI application, whose lifespan
\* starts the clean_up_sandboxes task and tears the pool down at shutdown,
\* or a celery worker, whose setup_sandbox only creates the pool.  The clock
\* counts in units of the task's idle_timeout.

\* clean_up_sandboxes: idle_timeout=600 of its cleanup_idle_sandboxes call,
\* one unit of the clock
LoopIdleTimeout == 1

\* the idle time from which on the sweep treats every entry alike
MaxIdle == LoopIdleTimeout + 1

\* a timestamp after one more unit of time has passed at now = MaxTime
Older(t) == IF t - 1 < now - MaxIdle THEN now - MaxIdle ELSE t - 1

\* the entries of a tier after one more unit of time
Aged(od) ==
    [i \in DOMAIN od |->
        [od[i] EXCEPT !.item.created_at = Older(@),
                      !.item.last_accessed = Older(@)]]

InitProcess ==
    /\ InitManager
    /\ Bootstrapped
    /\ Untracked
    /\ \E process \in Processes : lifespan = Started(process)
    /\ input = None
    /\ files = NoFiles

\* a caller in the serving process asks the pool for a sandbox
Serve(agent_name, session_id, config, accept) ==
    /\ lifespan.at = "serving"
    /\ GetSandbox(agent_name, session_id, config, accept)

\* time passes once the clock is at MaxTime: every entry's idle time grows
\* by one unit, up to MaxIdle
Age ==
    /\ last = Idle
    /\ now = MaxTime
    /\ _pool' = Aged(_pool)
    /\ _evicted' = Aged(_evicted)
    /\ <<_pool', _evicted'>> # <<_pool, _evicted>>
    /\ UNCHANGED <<capacity, containers, now, accesses, close_count, last,
                   first_admitted, admitted, get_order, touch_order, callers,
                   sweeper, lifespan, input, files, bootstrap, tracking>>

\* One iteration of clean_up_sandboxes after its sleep:
\* cleanup_idle_sandboxes(idle_timeout=600) inside try; raised: the body
\* raises an Exception, which except Exception catches and prints, and the
\* while loop goes on
CleanUpSandboxes(raised) ==
    /\ lifespan.task = "sleeping"
    /\ IF raised
       THEN /\ last = Idle
            /\ last' = Call("clean_up_sandboxes", <<>>, None, "raised",
                            NoSandbox, 0, <<>>, <<>>)
            /\ UNCHANGED <<capacity, _pool, _evicted, containers, now,
                           accesses, close_count, first_admitted, admitted,
                           get_order, touch_order, callers, sweeper,
                           lifespan, input, files, bootstrap, tracking>>
       ELSE CleanupIdleSandboxes(LoopIdleTimeout, SandboxIds, SandboxIds)

\* what a step of lifespan() that touches no tier leaves alone
LifespanFrame ==
    UNCHANGED <<capacity, _pool, _evicted, containers, now, accesses,
                close_count, last, first_admitted, admitted, get_order,
                touch_order, callers, sweeper, input, files,
                bootstrap, tracking>>

\* lifespan() after its yield: clean_up_sandboxes_task.cancel()
LifespanCancel ==
    /\ lifespan.process = "api"
    /\ lifespan.at = "serving"
    /\ last = Idle
    /\ lifespan' = [lifespan EXCEPT !.at = "awaiting", !.task = "cancelling"]
    /\ LifespanFrame

\* the task is resumed in its asyncio.sleep with CancelledError, which
\* except Exception does not catch: the task ends
TaskCancelled ==
    /\ lifespan.task = "cancelling"
    /\ lifespan' = [lifespan EXCEPT !.task = "cancelled"]
    /\ LifespanFrame

\* an await that returns while the task has not ended yet
LifespanAwaitPending ==
    /\ lifespan.at = "awaiting"
    /\ lifespan' = [lifespan EXCEPT !.at = "teardown"]
    /\ LifespanFrame

\* await clean_up_sandboxes_task returns (CancelledError is passed over)
LifespanAwait ==
    /\ lifespan.at = "awaiting"
    /\ lifespan.task = "cancelled"
    /\ lifespan' = [lifespan EXCEPT !.at = "teardown"]
    /\ LifespanFrame

\* sandbox_manager.cleanup_all_evicted()
LifespanCleanupAllEvicted ==
    LET e == cleanup_all_evicted(_evicted, containers, SandboxIds, SandboxIds)
    IN /\ lifespan.at = "teardown"
       /\ Closing("cleanup_all_evicted", <<>>, None, "swept", Len(_evicted),
                  [e EXCEPT !.pool = _pool])
       /\ lifespan' = [lifespan EXCEPT !.at = "evicted_closed"]

\* sandbox_manager.clear_pool(close_containers=True)
LifespanClearPool ==
    LET e == clear_pool(_pool, _evicted, containers, TRUE, SandboxIds,
                        SandboxIds)
    IN /\ lifespan.at = "evicted_closed"
       /\ Closing("clear_pool", <<>>, None, "closed",
                  Len(_pool) + Len(_evicted), e)
       /\ lifespan' = [lifespan EXCEPT !.at = "pool_closed"]

\* docker_client.close()
LifespanDockerClientClose ==
    /\ lifespan.at = "pool_closed"
    /\ last = Idle
    /\ lifespan' = [lifespan EXCEPT !.at = "done", !.docker_client = "closed"]
    /\ LifespanFrame

\* the steps lifespan() takes, one after the other, once it is resumed
Teardown ==
    \/ TaskCancelled
    \/ LifespanAwait
    \/ LifespanCleanupAllEvicted
    \/ LifespanClearPool
    \/ LifespanDockerClientClose

NextProcess ==
    \/ Tick
    \/ Age
    \/ Return
    \/ \E i \in Identities, accept \in BOOLEAN :
           \E config \in ConfigsFor(i[1], i[2]) \cup {None} :
               Serve(i[1], i[2], config, accept)
    \/ \E raised \in BOOLEAN : CleanUpSandboxes(raised)
    \/ LifespanCancel
    \/ TaskCancelled
    \/ LifespanAwait
    \/ LifespanCleanupAllEvicted
    \/ LifespanClearPool
    \/ LifespanDockerClientClose

\* Time passes and a call returns however many calls are made; the event
\* loop wakes the task after each sleep, and an iteration that finds the
\* manager sweeps; lifespan(), once resumed for the shutdown, runs to its
\* end.
SpecProcess ==
    /\ InitProcess
    /\ [][NextProcess]_vars
    /\ SF_vars(Tick \/ Age)
    /\ SF_vars(Return)
    /\ SF_vars(CleanUpSandboxes(FALSE))
    /\ SF_vars(Teardown)

\* the identities callers ask for in the smaller specifications
TwoIdentities == {i \in Identities : i[1] \in {<<"A">>, <<"B">>}}

\* The process while it serves: the pool is used and, where the task is
\* there, swept; no shutdown.
NextLoop ==
    \/ Tick
    \/ Age
    \/ Return
    \/ \E i \in TwoIdentities, accept \in BOOLEAN :
           \E config \in ConfigsFor(i[1], i[2]) \cup {None} :
               Serve(i[1], i[2], config, accept)
    \/ \E raised \in BOOLEAN : CleanUpSandboxes(raised)

\* Time passes and a call returns however many calls are made; the event
\* loop wakes the task after each sleep, and an iteration that finds the
\* manager sweeps.
SpecLoop ==
    /\ InitProcess
    /\ [][NextLoop]_vars
    /\ SF_vars(Tick \/ Age)
    /\ SF_vars(Return)
    /\ SF_vars(CleanUpSandboxes(FALSE))

(* ----------------------------- containers ---------------------------- *)
\* The pool and its sandboxes over a daemon whose containers end on their
\* own (the keep-alive sleep runs out) and which accepts or rejects each
\* run, start, stop and remove; get_sandbox is called with any config, also
\* one built for another identity or with its own life_seconds.

\* life_seconds a caller sets instead of the default
LifeSeconds == {5}

\* every DockerSandboxConfig a caller can build for them, with the default
\* life_seconds or its own
AnyConfigs ==
    LET both == Configs \cup [agent_name : Agents, session_id : Sessions,
                              docker_image : Images,
                              life_seconds : LifeSeconds]
    IN {c \in both : <<c.agent_name, c.session_id>> \in TwoIdentities}

\* the command strings callers pass to sandbox.bash
BashCommands == {<<"pwd">>}

\* the container's keep-alive command returns: the container exits
KeepAliveEnds(name) ==
    /\ last = Idle
    /\ containers[name] = "running"
    /\ containers' = [containers EXCEPT ![name] = "exited"]
    /\ UNCHANGED <<capacity, _pool, _evicted, now, accesses, close_count,
                   last, first_admitted, admitted, get_order, touch_order,
                   callers, sweeper, lifespan, input, files,
                   bootstrap, tracking>>

\* sandbox.bash(command) on the Sandbox tracked under key:
\* self._container.exec(command)
SandboxBash(key, command, accept) ==
    LET tier == IF od_has(_pool, key) THEN _pool ELSE _evicted
        sandbox == od_get(tier, key).sandbox
        e == exec(containers, sandbox.container_name, command, accept)
    IN
    /\ last = Idle
    /\ key \in TrackedKeys
    /\ containers' = e.containers
    /\ last' = Call("bash", key, [command |-> command],
                    IF e.raised THEN "raised" ELSE "ran", sandbox, 0,
                    e.calls, <<>>)
    /\ UNCHANGED <<capacity, _pool, _evicted, now, accesses, close_count,
                   first_admitted, admitted, get_order, touch_order,
                   callers, sweeper, lifespan, input, files,
                   bootstrap, tracking>>

NextContainers ==
    \/ Return
    \/ \E i \in TwoIdentities, accept \in BOOLEAN :
           \E config \in AnyConfigs \cup {None} :
               GetSandbox(i[1], i[2], config, accept)
    \/ \E name \in ContainerNames : KeepAliveEnds(name)
    \/ \E key \in AllKeys, command \in BashCommands, accept \in BOOLEAN :
           SandboxBash(key, command, accept)
    \/ \E i \in TwoIdentities, stop_ok \in BOOLEAN, remove_ok \in BOOLEAN :
           RemoveSandbox(i[1], i[2], stop_ok, remove_ok)

SpecContainers == Init /\ [][NextContainers]_vars

(* ------------------------------- files -------------------------------- *)
\* execute_file, write_file and read_file of the Sandbox a caller got from
\* the pool, for one choice of their arguments, over the shell of the
\* container.

\* the paths: a.sh, .sh, a.py, a.js, a.c, "a b.c", d.c/a, it's.c, noext,
\* "a.", a.SH, a.tar.c and &&
Paths ==
    {<<"a", ".", "sh">>, <<".", "sh">>, <<"a", ".", "py">>,
     <<"a", ".", "js">>, <<"a", ".", "c">>, <<"a", " ", "b", ".", "c">>,
     <<"d", ".", "c", "/", "a">>, <<"it", "'", "s", ".", "c">>, <<"noext">>,
     <<"a", ".">>, <<"a", ".", "SH">>, <<"a", ".", "tar", ".", "c">>,
     <<"&&">>}

\* the args: none, --x, ("a b", "it's") and ("")
ArgLists ==
    {<<>>, <<<<"--x">>>>, <<<<"a", " ", "b">>, <<"it", "'", "s">>>>, <<<<>>>>}

\* the contents: every string of up to MaxContent of these characters
ContentChars == {"a", "EOF", "\n"}

Contents == UNION {[1..n -> ContentChars] : n \in 0..MaxContent}

Inputs == [path : Paths, args : ArgLists, content : Contents]

InitFiles ==
    /\ InitManager
    /\ Bootstrapped
    /\ Untracked
    /\ capacity = 1
    /\ lifespan = Started("celery")
    /\ input \in Inputs
    /\ files = NoFiles

\* the caller gets its Sandbox: get_sandbox on the empty pool
Admit(agent_name, session_id, config) ==
    /\ _pool = <<>>
    /\ GetSandbox(agent_name, session_id, config, TRUE)

\* A returning call of a Sandbox method: a Call with the command it passed
\* to exec, what the shell wrote to stdout (output) and the lines the shell
\* ran as further commands (extra)
FileCall(op, key, sandbox, e, command, output, extra) ==
    [op |-> op, key |-> key, config |-> None,
     path |-> IF e.raised THEN "raised" ELSE "returned", sandbox |-> sandbox,
     count |-> 0, calls |-> e.calls, closed |-> <<>>, command |-> command,
     output |-> output, extra |-> extra]

FilesFrame ==
    UNCHANGED <<capacity, _pool, _evicted, now, accesses, close_count,
                first_admitted, admitted, get_order, touch_order, callers,
                sweeper, lifespan, input, bootstrap, tracking>>

\* sandbox.execute_file(input.path, input.args)
ExecuteFile(key) ==
    LET sandbox == od_get(_pool, key).sandbox
        command == execute_file(sandbox.session_id, input.path, input.args)
        e == exec(containers, sandbox.container_name, command, TRUE)
    IN /\ last = Idle
       /\ od_has(_pool, key)
       /\ containers' = e.containers
       /\ last' = FileCall("execute_file", key, sandbox, e, command, <<>>,
                           <<>>)
       /\ UNCHANGED files
       /\ FilesFrame

\* sandbox.write_file(input.path, input.content)
WriteFile(key) ==
    LET sandbox == od_get(_pool, key).sandbox
        command == write_file(input.path, input.content)
        e == exec(containers, sandbox.container_name, command, TRUE)
        r == sh_lc(command[3], files)
    IN /\ last = Idle
       /\ od_has(_pool, key)
       /\ containers' = e.containers
       /\ files' = IF e.raised THEN files ELSE r.files
       /\ last' = FileCall("write_file", key, sandbox, e, command, <<>>,
                           IF e.raised THEN <<>> ELSE r.extra)
       /\ FilesFrame

\* sandbox.read_file(input.path)
ReadFile(key) ==
    LET sandbox == od_get(_pool, key).sandbox
        command == read_file(input.path)
        e == exec(containers, sandbox.container_name, command, TRUE)
        r == sh_lc(command[3], files)
    IN /\ last = Idle
       /\ od_has(_pool, key)
       /\ containers' = e.containers
       /\ last' = FileCall("read_file", key, sandbox, e, command,
                           IF e.raised THEN <<>> ELSE r.output, <<>>)
       /\ UNCHANGED files
       /\ FilesFrame

NextFiles ==
    \/ Return
    \/ \E config \in ConfigsFor(<<"A">>, <<"s1">>) :
           Admit(<<"A">>, <<"s1">>, config)
    \/ \E key \in AllKeys : ExecuteFile(key)
    \/ \E key \in AllKeys : WriteFile(key)
    \/ \E key \in AllKeys : ReadFile(key)

SpecFiles == InitFiles /\ [][NextFiles]_vars

(* --------------------------- introspection --------------------------- *)
\* The sequential pool of two identities with its getters: each getter is a
\* call that returns an answer and changes nothing.

\* a returning getter: path holds a bool answer, count a number, info a
\* snapshot
Answer(op, key, path, count, info) ==
    [op |-> op, key |-> key, config |-> None, path |-> path,
     sandbox |-> NoSandbox, count |-> count, calls |-> <<>>, closed |-> <<>>,
     info |-> info]

\* the text of a bool
Bool(b) == IF b THEN "True" ELSE "False"

\* what a getter leaves alone
GetterFrame ==
    UNCHANGED <<capacity, _pool, _evicted, containers, now, accesses,
                close_count, first_admitted, admitted, get_order,
                touch_order, callers, sweeper, lifespan, input, files,
                bootstrap, tracking>>

GetPoolSize ==
    /\ last = Idle
    /\ last' = Answer("get_pool_size", <<>>, "number", get_pool_size(_pool),
                      <<>>)
    /\ GetterFrame

GetEvictedSize ==
    /\ last = Idle
    /\ last' = Answer("get_evicted_size", <<>>, "number",
                      get_evicted_size(_evicted), <<>>)
    /\ GetterFrame

GetTotalSize ==
    /\ last = Idle
    /\ last' = Answer("get_total_size", <<>>, "number",
                      get_total_size(_pool, _evicted), <<>>)
    /\ GetterFrame

IsPoolFull ==
    /\ last = Idle
    /\ last' = Answer("is_pool_full", <<>>,
                      Bool(is_pool_full(_pool, capacity)), 0, <<>>)
    /\ GetterFrame

HasSandbox(agent_name, session_id) ==
    /\ last = Idle
    /\ last' = Answer("has_sandbox", _make_key(agent_name, session_id),
                      Bool(has_sandbox(_pool, _evicted, agent_name,
                                       session_id)), 0, <<>>)
    /\ GetterFrame

GetPoolInfo ==
    /\ last = Idle
    /\ last' = Answer("get_pool_info", <<>>, "info", 0,
                      get_pool_info(_pool, now))
    /\ GetterFrame

GetEvictedInfo ==
    /\ last = Idle
    /\ last' = Answer("get_evicted_info", <<>>, "info", 0,
                      get_evicted_info(_evicted, now))
    /\ GetterFrame

GetAllSandboxesInfo ==
    /\ last = Idle
    /\ last' = Answer("get_all_sandboxes_info", <<>>, "info", 0,
                      get_all_sandboxes_info(_pool, _evicted, now))
    /\ GetterFrame

NextInfo ==
    \/ Tick
    \/ Return
    \/ \E i \in TwoIdentities, accept \in BOOLEAN :
           \E config \in ConfigsFor(i[1], i[2]) \cup {None} :
               GetSandbox(i[1], i[2], config, accept)
    \/ \E i \in TwoIdentities : MarkSandbox(i[1], i[2])
    \/ \E i \in TwoIdentities : RemoveSandbox(i[1], i[2], TRUE, TRUE)
    \/ EvictLru
    \/ \E t \in IdleTimeouts : CleanupIdleSandboxes(t, SandboxIds, SandboxIds)
    \/ CleanupAllEvicted(SandboxIds, SandboxIds)
    \/ \E close_containers \in BOOLEAN :
           ClearPool(close_containers, SandboxIds, SandboxIds)
    \/ GetPoolSize
    \/ GetEvictedSize
    \/ GetTotalSize
    \/ IsPoolFull
    \/ \E i \in TwoIdentities : HasSandbox(i[1], i[2])
    \/ GetPoolInfo
    \/ GetEvictedInfo
    \/ GetAllSandboxesInfo

SpecInfo == Init /\ [][NextInfo]_vars

(* ----------------------------- bootstrap ----------------------------- *)
\* The start-up of a process: init_docker_client with its retries, and the
\* SandboxManager singleton, called in any order.  Delays count in units of
\* half a second.

Retries == 0..MaxRetries

BaseDelays == {1, 3}

\* a client the caller built itself and passes as docker_client
ExplicitClient == DockerClient(0, 0)

\* the process has not started anything: no client, no manager
InitClient ==
    /\ InitManager
    /\ Untracked
    /\ capacity = 1
    /\ _docker_client = None
    /\ _sandbox_manager = None
    /\ boot = BootIdle
    /\ lifespan = Started("celery")
    /\ input = None
    /\ files = NoFiles

\* what the start-up calls leave alone
BootFrame ==
    UNCHANGED <<_pool, _evicted, containers, now, accesses, close_count,
                first_admitted, admitted, get_order, touch_order, callers,
                sweeper, lifespan, input, files, tracking>>

\* init_docker_client(retries, base_delay) is called
InitDockerClient(retries, base_delay) ==
    /\ boot.at \notin {"attempt", "sleep"}
    /\ boot.call < MaxBoots
    /\ boot' = init_docker_client(_docker_client, boot.call + 1, retries,
                                  base_delay)
    /\ UNCHANGED <<capacity, last, _docker_client, _sandbox_manager>>
    /\ BootFrame

\* one pass of the try: docker.from_env() and client.ping(); ok: neither
\* raises DockerException
Connect(ok) ==
    LET outcomes == Append(boot.outcomes,
                           IF ok THEN "ok" ELSE "DockerException")
        client == DockerClient(boot.call, boot.attempt)
    IN
    /\ boot.at = "attempt"
    /\ IF ok
       THEN /\ _docker_client' = client
            /\ boot' = [boot EXCEPT !.at = "returned", !.outcomes = outcomes,
                                    !.result = client]
       ELSE /\ UNCHANGED _docker_client
            /\ boot' = [boot EXCEPT
                           !.at = IF exhausted(boot.attempt, boot.retries)
                                  THEN "raised" ELSE "sleep",
                           !.outcomes = outcomes]
    /\ UNCHANGED <<capacity, last, _sandbox_manager>>
    /\ BootFrame

\* time.sleep(delay) and the next pass of the for loop
Backoff ==
    /\ boot.at = "sleep"
    /\ boot' = [boot EXCEPT
                   !.at = "attempt",
                   !.attempt = @ + 1,
                   !.slept = Append(@, delay(boot.base_delay, boot.attempt))]
    /\ UNCHANGED <<capacity, last, _docker_client, _sandbox_manager>>
    /\ BootFrame

\* init_sandbox_manager(capacity=cap, docker_client=docker_client)
InitSandboxManager(cap, docker_client) ==
    LET r == init_sandbox_manager(_sandbox_manager, cap, docker_client,
                                  _docker_client)
    IN
    /\ last = Idle
    /\ _sandbox_manager' = r.manager
    /\ capacity' = IF r.manager = None THEN capacity ELSE r.manager.capacity
    /\ last' = [Answer("init_sandbox_manager", <<>>, r.path, cap, r.value)
                    EXCEPT !.config = [docker_client |-> docker_client]]
    /\ UNCHANGED <<_docker_client, boot>>
    /\ BootFrame

\* SandboxManager(capacity=cap, docker_client=docker_client), called
\* directly
NewSandboxManager(cap, docker_client) ==
    LET r == SandboxManager(cap, docker_client, _docker_client) IN
    /\ last = Idle
    /\ last' = [Answer("SandboxManager", <<>>, r.path, cap, r.value)
                    EXCEPT !.config = [docker_client |-> docker_client]]
    /\ UNCHANGED <<capacity, bootstrap>>
    /\ BootFrame

\* get_sandbox_manager()
GetSandboxManager ==
    LET r == get_sandbox_manager(_sandbox_manager) IN
    /\ last = Idle
    /\ last' = Answer("get_sandbox_manager", <<>>, r.path, 0, r.value)
    /\ UNCHANGED <<capacity, bootstrap>>
    /\ BootFrame

\* get_docker_client()
GetDockerClient ==
    LET r == get_docker_client(_docker_client) IN
    /\ last = Idle
    /\ last' = Answer("get_docker_client", <<>>, r.path, 0, r.value)
    /\ UNCHANGED <<capacity, bootstrap>>
    /\ BootFrame

\* the steps of an init_docker_client call in progress
BootStep == (\E ok \in BOOLEAN : Connect(ok)) \/ Backoff

NextClient ==
    \/ Return
    \/ \E retries \in Retries, base_delay \in BaseDelays :
           InitDockerClient(retries, base_delay)
    \/ \E ok \in BOOLEAN : Connect(ok)
    \/ Backoff
    \/ \E cap \in Capacities, docker_client \in {None, ExplicitClient} :
           InitSandboxManager(cap, docker_client)
    \/ \E cap \in Capacities, docker_client \in {None, ExplicitClient} :
           NewSandboxManager(cap, docker_client)
    \/ GetSandboxManager
    \/ GetDockerClient

\* a call of init_docker_client that is running goes on: it is a plain
\* loop of the thread that called it
SpecClient == InitClient /\ [][NextClient]_vars /\ WF_vars(BootStep)

(* ------------------------------ claims ------------------------------- *)

\* C1: the active tier never holds more than capacity entries, after any
\* call of the public surface.
CapacityInvariant == Len(_pool) <= capacity

\* C2: no key is in both tiers, and no tier holds two entries for one key.
NoDuplication ==
    /\ od_keys(_pool) \cap od_keys(_evicted) = {}
    /\ \A i, j \in DOMAIN _pool : _pool[i].key = _pool[j].key => i = j
    /\ \A i, j \in DOMAIN _evicted :
           _evicted[i].key = _evicted[j].key => i = j

\* C2, the case: a revival has just moved a key back while another key
\* stays evicted.
NoDuplicationWitness ==
    /\ last.path = "revived"
    /\ _evicted # <<>>
    /\ Len(_pool) >= 2

\* C3 as stated: every get_sandbox of a key, from its admission until a
\* remove_sandbox or another hard close of that key, returns the Sandbox of
\* that admission.
IdentityStableUntilClose ==
    (last.op = "get_sandbox" /\ last.sandbox # NoSandbox)
        => last.sandbox = first_admitted[last.key]

\* C3 as amended: every get_sandbox of a key, from its admission and while
\* the key stays tracked in either tier, returns the Sandbox of that
\* admission, bound to the same container name; every tracked entry holds
\* the Sandbox of its admission.
IdentityStableWhileTracked ==
    /\ (last.op = "get_sandbox" /\ last.path \in {"hit", "revived"})
           => /\ last.sandbox = admitted[last.key]
              /\ last.sandbox.container_name
                     = admitted[last.key].container_name
    /\ \A i \in DOMAIN _pool : _pool[i].item.sandbox = admitted[_pool[i].key]
    /\ \A i \in DOMAIN _evicted :
           _evicted[i].item.sandbox = admitted[_evicted[i].key]

\* C3, the case: a key that was hit, evicted and revived gets the Sandbox of
\* its admission back while another key is in the evicted tier.
IdentityStableWitness ==
    /\ last.path = "revived"
    /\ last.sandbox = admitted[last.key]
    /\ od_has(_pool, last.key)
    /\ od_get(_pool, last.key).access_count >= 2
    /\ _evicted # <<>>

\* C4: a get_sandbox of an evicted key moves that entry to the end of the
\* active tier, touched once, returns the Sandbox it already holds and
\* sends nothing to the daemon; a call without config takes this branch.
Revival ==
    /\ [][last'.path = "revived" =>
            LET key == last'.key
                old == od_get(_evicted, key)
                new == [old EXCEPT !.last_accessed = now,
                                   !.access_count = old.access_count + 1]
            IN /\ od_has(_evicted, key)
               /\ _evicted' = od_pop(_evicted, key)
               /\ _pool' = Append(_pool, [key |-> key, item |-> new])
               /\ last'.sandbox = old.sandbox
               /\ last'.calls = <<>>
               /\ containers' = containers
               /\ close_count' = close_count]_vars
    /\ [](\A i \in Identities :
            od_has(_evicted, _make_key(i[1], i[2]))
                => get_sandbox(_pool, _evicted, containers, capacity, i[1],
                               i[2], None, FreshId(_make_key(i[1], i[2])),
                               now, TRUE).path = "revived")

\* C4, the case: a call without config has revived an entry at a later time
\* than its last access.
RevivalWitness ==
    /\ last.path = "revived"
    /\ last.config = None
    /\ od_get(_pool, last.key).last_accessed
           > od_get(_pool, last.key).created_at

\* C5 as stated: with capacity 2 and A, B, C admitted in that order (active
\* B, C; evicted A), a get_sandbox of A without config leaves exactly C, A
\* in the active tier, A last, and exactly B in the evicted tier.
RevivalIntoFullTier ==
    [][LET A == _make_key(<<"A">>, <<"s1">>)
           B == _make_key(<<"B">>, <<"s1">>)
           C == _make_key(<<"C">>, <<"s1">>)
       IN (/\ capacity = 2
           /\ KeySeq(_pool) = <<B, C>>
           /\ KeySeq(_evicted) = <<A>>
           /\ last'.op = "get_sandbox"
           /\ last'.key = A
           /\ last'.config = None)
              => /\ KeySeq(_pool') = <<C, A>>
                 /\ KeySeq(_evicted') = <<B>>]_vars

\* C6: a get_sandbox with a config for a key in neither tier is an
\* admission; it moves exactly the first active entry to the evicted tier
\* when the active tier is full and moves nothing when there is room; the
\* new key ends last in the active tier with access_count = 1 and
\* created_at = last_accessed; every key tracked before is tracked after.
Admission ==
    /\ [][last'.path = "admitted" =>
            LET key == last'.key
                n == Len(_pool')
                entry == _pool'[n]
            IN /\ last'.config # None
               /\ key \notin TrackedKeys
               /\ n >= 1
               /\ entry.key = key
               /\ entry.item.sandbox = last'.sandbox
               /\ entry.item.access_count = 1
               /\ entry.item.created_at = now
               /\ entry.item.last_accessed = entry.item.created_at
               /\ IF Len(_pool) >= capacity
                  THEN /\ _evicted' = Append(_evicted, Head(_pool))
                       /\ SubSeq(_pool', 1, n - 1) = Tail(_pool)
                  ELSE /\ _evicted' = _evicted
                       /\ SubSeq(_pool', 1, n - 1) = _pool
               /\ TrackedKeys \subseteq TrackedKeys']_vars
    /\ [](\A i \in Identities : \A config \in ConfigsFor(i[1], i[2]) :
            _make_key(i[1], i[2]) \notin TrackedKeys
                => get_sandbox(_pool, _evicted, containers, capacity, i[1],
                               i[2], config, FreshId(_make_key(i[1], i[2])),
                               now, TRUE).path = "admitted")

\* C6, the case: an admission into a full active tier of two entries, with
\* an entry in the evicted tier.
AdmissionWitness ==
    /\ last.path = "admitted"
    /\ capacity = 2
    /\ Len(_pool) = 2
    /\ _evicted # <<>>
    /\ _pool[2].key = last.key

\* C7: _evict_lru moves exactly the first active entry, as it is, to the end
\* of the evicted tier; it sends nothing to the daemon and closes no
\* sandbox; on an empty active tier it changes nothing.
SoftEviction ==
    [][last'.op = "_evict_lru" =>
         /\ IF _pool = <<>>
            THEN /\ _pool' = _pool
                 /\ _evicted' = _evicted
                 /\ last'.path = "empty"
            ELSE /\ _pool' = Tail(_pool)
                 /\ _evicted' = Append(_evicted, Head(_pool))
                 /\ last'.path = "evicted"
         /\ containers' = containers
         /\ close_count' = close_count
         /\ last'.calls = <<>>
         /\ last'.closed = <<>>]_vars

\* C7, the case: _evict_lru has moved an entry that was touched more than
\* once, and another entry stays active.
SoftEvictionWitness ==
    /\ last.op = "_evict_lru"
    /\ last.path = "evicted"
    /\ _pool # <<>>
    /\ _evicted[Len(_evicted)].item.access_count >= 2
    /\ containers[_evicted[Len(_evicted)].item.sandbox.container_name]
           = "running"

\* C8 as stated: the order of the active tier is the order of the keys'
\* latest get_sandbox touches, and a soft eviction removes the active entry
\* whose latest get_sandbox touch is the oldest.
LruByGetSandbox ==
    /\ [](KeySeq(_pool) = Within(get_order, _pool))
    /\ [][\A k \in AllKeys :
            (od_has(_pool, k) /\ od_has(_evicted', k))
                => k = Head(Within(get_order, _pool))]_vars

\* C8 as amended: the order of the active tier is the order of the keys'
\* latest touches, by get_sandbox or by mark_sandbox, and a soft eviction
\* removes the active entry whose latest touch is the oldest.
LruByTouch ==
    /\ [](KeySeq(_pool) = touch_order)
    /\ [][\A k \in AllKeys :
            (od_has(_pool, k) /\ od_has(_evicted', k))
                => k = Head(touch_order)]_vars

\* C8, the case: the entry evicted last had a later get_sandbox touch than
\* an entry that stays active (which mark_sandbox touched since).
LruByTouchWitness ==
    /\ last.path \in {"evicted", "admitted"}
    /\ _evicted # <<>>
    /\ \E a, b \in DOMAIN get_order :
           /\ a < b
           /\ od_has(_pool, get_order[a])
           /\ get_order[b] = _evicted[Len(_evicted)].key

\* C9: a get_sandbox of an active key is a hit; it sets the entry's
\* last_accessed to now, adds 1 to its access_count, moves it to the end of
\* the active tier and returns its Sandbox; the other active entries, their
\* order, the evicted tier and the tracked keys stay as they were, and
\* nothing is sent to the daemon.
ActiveHit ==
    /\ [][last'.path = "hit" =>
            LET key == last'.key
                old == od_get(_pool, key)
                new == [old EXCEPT !.last_accessed = now,
                                   !.access_count = old.access_count + 1]
            IN /\ od_has(_pool, key)
               /\ _pool' = Append(od_pop(_pool, key),
                                  [key |-> key, item |-> new])
               /\ _evicted' = _evicted
               /\ TrackedKeys' = TrackedKeys
               /\ last'.sandbox = old.sandbox
               /\ last'.calls = <<>>
               /\ containers' = containers
               /\ close_count' = close_count]_vars
    /\ [](\A i \in Identities :
            \A config \in ConfigsFor(i[1], i[2]) \cup {None} :
                od_has(_pool, _make_key(i[1], i[2]))
                    => get_sandbox(_pool, _evicted, containers, capacity,
                                   i[1], i[2], config,
                                   FreshId(_make_key(i[1], i[2])), now,
                                   TRUE).path = "hit")

\* C9, the case: a hit at a later time than the entry's creation has moved
\* the entry behind another active entry, with an entry in the evicted tier.
ActiveHitWitness ==
    /\ last.path = "hit"
    /\ Len(_pool) >= 2
    /\ _evicted # <<>>
    /\ _pool[Len(_pool)].key = last.key
    /\ _pool[Len(_pool)].item.last_accessed
           > _pool[Len(_pool)].item.created_at

\* C10: a get_sandbox without config of a key in neither tier raises
\* ValueError and leaves both tiers, their order and every entry as they
\* were, evicts nothing even from a full active tier, and sends nothing to
\* the daemon.
UnknownKeyWithoutConfig ==
    /\ [][last'.path = "ValueError" =>
            /\ last'.config = None
            /\ last'.key \notin TrackedKeys
            /\ last'.sandbox = NoSandbox
            /\ _pool' = _pool
            /\ _evicted' = _evicted
            /\ containers' = containers
            /\ close_count' = close_count
            /\ last'.calls = <<>>]_vars
    /\ [](\A i \in Identities :
            _make_key(i[1], i[2]) \notin TrackedKeys
                => get_sandbox(_pool, _evicted, containers, capacity, i[1],
                               i[2], None, FreshId(_make_key(i[1], i[2])),
                               now, TRUE).path = "ValueError")

\* C10, the case: the call was made with a full active tier and an entry in
\* the evicted tier.
UnknownKeyWithoutConfigWitness ==
    /\ last.path = "ValueError"
    /\ Len(_pool) >= capacity
    /\ _evicted # <<>>

\* the identities of the sandboxes of the entries of a tier, in its order
SandboxSeq(od) == [i \in DOMAIN od |-> od[i].item.sandbox.id]

\* the requests of calls that name a container
Named(calls, name) == SelectSeq(calls, LAMBDA c : c.name = name)

\* C11: cleanup_idle_sandboxes(T) removes from the evicted tier exactly the
\* entries with now - last_accessed > T and calls close() once on each of
\* them; the entries idle for T or less keep their place, their metadata
\* and their container.
IdleReclamation ==
    [][last'.op = "cleanup_idle_sandboxes" =>
         LET T == last'.config.idle_timeout
             idle == SelectSeq(_evicted,
                        LAMBDA e : now - e.item.last_accessed > T)
             kept == SelectSeq(_evicted,
                        LAMBDA e : now - e.item.last_accessed <= T)
         IN /\ _evicted' = kept
            /\ last'.closed = SandboxSeq(idle)
            /\ last'.count = Len(idle)
            /\ \A i \in DOMAIN idle :
                   close_count'[idle[i].item.sandbox.id]
                       = close_count[idle[i].item.sandbox.id] + 1
            /\ \A i \in DOMAIN kept :
                   LET sb == kept[i].item.sandbox
                   IN /\ containers'[sb.container_name]
                             = containers[sb.container_name]
                      /\ close_count'[sb.id] = close_count[sb.id]
                      /\ Named(last'.calls, sb.container_name) = <<>>]_vars

\* C11, the case: a sweep has closed an evicted entry and left another one,
\* idle for exactly the timeout, in the evicted tier.
IdleReclamationWitness ==
    /\ last.op = "cleanup_idle_sandboxes"
    /\ last.closed # <<>>
    /\ \E i \in DOMAIN _evicted :
           now - _evicted[i].item.last_accessed = last.config.idle_timeout

\* C12: cleanup_idle_sandboxes, for any idle_timeout, and
\* cleanup_all_evicted leave the keys, the order and the entries of the
\* active tier as they were and send no request for the container of an
\* active entry, however long the entry has been idle.
SweepsLeaveActive ==
    [][last'.op \in {"cleanup_idle_sandboxes", "cleanup_all_evicted"} =>
         /\ _pool' = _pool
         /\ \A i \in DOMAIN _pool :
                LET sb == _pool[i].item.sandbox
                IN /\ containers'[sb.container_name]
                          = containers[sb.container_name]
                   /\ close_count'[sb.id] = close_count[sb.id]
                   /\ Named(last'.calls, sb.container_name) = <<>>
                   /\ \A j \in DOMAIN last'.closed :
                          last'.closed[j] # sb.id]_vars

\* C12, the case: a sweep with a negative idle_timeout has closed an evicted
\* entry while an active entry was idle for longer than the timeout.
SweepsLeaveActiveWitness ==
    /\ last.op = "cleanup_idle_sandboxes"
    /\ last.config.idle_timeout < 0
    /\ last.closed # <<>>
    /\ \E i \in DOMAIN _pool : now - _pool[i].item.last_accessed >= 1

\* C18: remove_sandbox(key) returns True exactly when the key is tracked;
\* then the entry leaves its tier, close() is called once on its Sandbox
\* and the key is in neither tier; when it returns False nothing changes;
\* the other entries and their order stay as they were.
RemoveSandboxResult ==
    [][last'.op = "remove_sandbox" =>
         LET key == last'.key
             entry == IF od_has(_pool, key) THEN od_get(_pool, key)
                      ELSE od_get(_evicted, key)
         IN /\ (last'.path = "True") <=> (key \in TrackedKeys)
            /\ last'.path \in {"True", "False"}
            /\ _pool' = SelectSeq(_pool, LAMBDA e : e.key # key)
            /\ _evicted' = SelectSeq(_evicted, LAMBDA e : e.key # key)
            /\ key \notin TrackedKeys'
            /\ IF key \in TrackedKeys
               THEN /\ last'.closed = <<entry.sandbox.id>>
                    /\ close_count'[entry.sandbox.id]
                           = close_count[entry.sandbox.id] + 1
               ELSE /\ last'.closed = <<>>
                    /\ last'.calls = <<>>
                    /\ containers' = containers
                    /\ close_count' = close_count]_vars

\* C18, the case: remove_sandbox has returned True and the container of the
\* key is gone while both tiers still hold other entries.
RemoveSandboxResultWitness ==
    /\ last.op = "remove_sandbox"
    /\ last.path = "True"
    /\ _pool # <<>>
    /\ _evicted # <<>>
    /\ Len(last.closed) = 1
    /\ \A n \in ContainerNames :
           Named(last.calls, n) # <<>> => containers[n] = "absent"

\* C19: mark_sandbox touches an active key's entry (last_accessed = now,
\* access_count + 1, moved to the end); for an evicted or untracked key it
\* changes nothing; it never changes the membership of a tier and sends
\* nothing to the daemon.
MarkSandboxTouchOnly ==
    [][last'.op = "mark_sandbox" =>
         LET key == last'.key
             old == od_get(_pool, key)
             new == [old EXCEPT !.last_accessed = now,
                                !.access_count = old.access_count + 1]
         IN /\ IF od_has(_pool, key)
               THEN _pool' = Append(SelectSeq(_pool, LAMBDA e : e.key # key),
                                    [key |-> key, item |-> new])
               ELSE _pool' = _pool
            /\ od_keys(_pool') = od_keys(_pool)
            /\ _evicted' = _evicted
            /\ containers' = containers
            /\ close_count' = close_count
            /\ last'.calls = <<>>
            /\ last'.closed = <<>>]_vars

\* C19, the case: mark_sandbox was called for an evicted key while another
\* entry is active, and the key is still evicted.
MarkSandboxTouchOnlyWitness ==
    /\ last.op = "mark_sandbox"
    /\ od_has(_evicted, last.key)
    /\ _pool # <<>>

\* agent_name and session_id strings with and without ":" in them
ColonNames == {<<"A">>, <<"A", ":", "B">>, <<":">>, <<":", "A", ":">>, <<>>}

\* C20: clear_pool empties both tiers and returns the number of entries
\* they held; with close_containers = True it calls close() once on the
\* Sandbox of every entry of both tiers, whatever the agent_name and
\* session_id strings (the key it splits is the key it removes); with
\* close_containers = False it sends nothing to the daemon and closes
\* nothing.
ClearPoolEmpties ==
    /\ [][last'.op = "clear_pool" =>
            /\ _pool' = <<>>
            /\ _evicted' = <<>>
            /\ last'.count = Len(_pool) + Len(_evicted)
            /\ IF last'.path = "closed"
               THEN /\ last'.closed = SandboxSeq(_pool) \o SandboxSeq(_evicted)
                    /\ \A i \in DOMAIN last'.closed :
                           close_count'[last'.closed[i]]
                               = close_count[last'.closed[i]] + 1
               ELSE /\ last'.path = "dropped"
                    /\ last'.closed = <<>>
                    /\ last'.calls = <<>>
                    /\ containers' = containers
                    /\ close_count' = close_count]_vars
    /\ [](\A a \in ColonNames, b \in ColonNames :
            LET parts == split_colon(_make_key(a, b))
            IN _make_key(parts[1], parts[2]) = _make_key(a, b))

\* C20, the case: clear_pool(close_containers=True) was called with entries
\* in both tiers and has closed three sandboxes.
ClearPoolEmptiesWitness ==
    /\ last.op = "clear_pool"
    /\ last.path = "closed"
    /\ Len(last.closed) = 3
    /\ last.count = 3
    /\ \A n \in ContainerNames : containers[n] = "absent"

\* C16 as stated: when the stop or the remove of an idle evicted entry
\* fails during cleanup_idle_sandboxes (its container is still there after
\* the sweep), the entry is not counted in the number the sweep returns and
\* stays tracked in the evicted tier.
CleanupFailureKeepsEntry ==
    [][last'.op = "cleanup_idle_sandboxes" =>
         LET T == last'.config.idle_timeout
             idle == SelectSeq(_evicted,
                        LAMBDA e : now - e.item.last_accessed > T)
             failed == {i \in DOMAIN idle :
                          containers'[idle[i].item.sandbox.container_name]
                              # "absent"}
         IN /\ \A i \in failed : od_has(_evicted', idle[i].key)
            /\ last'.count = Len(idle) - Cardinality(failed)]_vars

\* C17: cleanup_idle_sandboxes and cleanup_all_evicted return their count
\* whatever the daemon answers to a stop or a remove, and every entry they
\* selected leaves the evicted tier and has close() called on it (a stop and
\* a remove attempt for its container), also after the close of another
\* selected entry failed.
SweepsTotal ==
    [][last'.op \in {"cleanup_idle_sandboxes", "cleanup_all_evicted"} =>
         LET selected ==
                 IF last'.op = "cleanup_all_evicted" THEN _evicted
                 ELSE SelectSeq(_evicted,
                          LAMBDA e : now - e.item.last_accessed
                                         > last'.config.idle_timeout)
         IN /\ last'.path = "swept"
            /\ last'.count = Len(selected)
            /\ last'.closed = SandboxSeq(selected)
            /\ \A i \in DOMAIN selected :
                   /\ ~od_has(_evicted', selected[i].key)
                   /\ Len(Named(last'.calls,
                                selected[i].item.sandbox.container_name)) >= 2
            /\ Len(_evicted') = Len(_evicted) - Len(selected)]_vars

\* C17, the case: a sweep has closed two entries; the container of one is
\* still there (its close failed) and the container of the other is gone.
SweepsTotalWitness ==
    /\ last.op \in {"cleanup_idle_sandboxes", "cleanup_all_evicted"}
    /\ Len(last.closed) >= 2
    /\ \E n \in ContainerNames :
           Named(last.calls, n) # <<>> /\ containers[n] # "absent"
    /\ \E n \in ContainerNames :
           Named(last.calls, n) # <<>> /\ containers[n] = "absent"
    /\ LET n == last.calls[1].name IN containers[n] # "absent"

\* C21: cleanup_all_evicted closes every evicted entry, whatever its idle
\* time: afterwards _evicted is empty, close() has been called exactly once
\* on the Sandbox of each entry that was in it and on no other, the active
\* tier is as it was, and the number returned is the size _evicted had.
CleanupAllEvictedTotal ==
    [][last'.op = "cleanup_all_evicted" =>
         /\ _evicted' = <<>>
         /\ _pool' = _pool
         /\ last'.count = Len(_evicted)
         /\ \A id \in SandboxIds :
                close_count'[id] - close_count[id]
                    = IF id \in Held(_evicted) THEN 1 ELSE 0
         /\ last'.closed = SandboxSeq(_evicted)]_vars

\* C21, the case: cleanup_all_evicted has closed two entries at the time of
\* their last touch (idle for 0 seconds) while an active entry stays.
CleanupAllEvictedTotalWitness ==
    /\ last.op = "cleanup_all_evicted"
    /\ last.count = 2
    /\ Len(last.closed) = 2
    /\ now = 0
    /\ _pool # <<>>
    /\ _evicted = <<>>

\* C22 as stated: in a process that uses the pool, no entry stays in the
\* evicted tier for ever (the sweep of the clean_up_sandboxes task takes
\* it, unless a get_sandbox revives it before); and as long as the task is
\* there, sweeps keep coming, also after an iteration that raised.
EventualReclamation ==
    /\ \A key \in AllKeys : []<>(~od_has(_evicted, key))
    /\ []<>(lifespan.task # "sleeping" \/ last.op = "cleanup_idle_sandboxes")

\* C23: at the shutdown of the serving process the clean_up_sandboxes task
\* has ended before the teardown starts and sweeps no more; the teardown
\* calls close() once on the Sandbox of every entry of the evicted tier and
\* then of every entry of the active tier; both tiers are empty from then
\* on; and the docker client is closed after all of this, with no close()
\* and no request to the daemon after it.
ShutdownInOrder ==
    /\ [](lifespan.at \in {"teardown", "evicted_closed", "pool_closed", "done"}
              => lifespan.task = "cancelled")
    /\ [](lifespan.at \in {"pool_closed", "done"}
              => _pool = <<>> /\ _evicted = <<>>)
    /\ [](lifespan.docker_client = "closed" <=> lifespan.at = "done")
    /\ [][/\ lifespan.task # "sleeping"
              => last'.op \notin {"cleanup_idle_sandboxes",
                                  "clean_up_sandboxes"}
          /\ lifespan.at # "serving" => last'.op # "get_sandbox"
          /\ (lifespan.at = "teardown" /\ lifespan'.at # "teardown")
              => /\ lifespan'.at = "evicted_closed"
                 /\ _evicted' = <<>>
                 /\ _pool' = _pool
                 /\ last'.closed = SandboxSeq(_evicted)
                 /\ \A id \in Held(_evicted) :
                        close_count'[id] = close_count[id] + 1
          /\ (lifespan.at = "evicted_closed"
                  /\ lifespan'.at # "evicted_closed")
              => /\ lifespan'.at = "pool_closed"
                 /\ last'.closed = SandboxSeq(_pool)
                 /\ \A id \in Held(_pool) :
                        close_count'[id] = close_count[id] + 1
          /\ lifespan.at \in {"pool_closed", "done"}
              => /\ close_count' = close_count
                 /\ containers' = containers
                 /\ last'.calls = <<>>]_vars

\* C23, the case: the teardown has closed an active entry with clear_pool
\* after it closed an evicted entry that no sweep of the task could have
\* taken (no time has passed since its last touch).
ShutdownInOrderWitness ==
    /\ lifespan.at = "pool_closed"
    /\ lifespan.task = "cancelled"
    /\ last.op = "clear_pool"
    /\ last.closed # <<>>
    /\ now = 0
    /\ \E id \in SandboxIds :
           /\ close_count[id] = 1
           /\ \A j \in DOMAIN last.closed : last.closed[j] # id

\* the requests of calls of one kind
Reqs(calls, req) == SelectSeq(calls, LAMBDA c : c.req = req)

\* C24: DockerContainer.exec on a container the daemon has but that is not
\* running sends exactly one start, and when the daemon accepts it the
\* command is run once, after the start, in the running container (a
\* rejected start is raised and nothing is run); on a running container it
\* sends no start and runs the command once; the command is the caller's.
SelfHealingExec ==
    [][last'.op = "bash" =>
         LET name == last'.sandbox.container_name
             calls == last'.calls
             starts == Reqs(calls, "start")
             runs == Reqs(calls, "exec_run")
         IN /\ \A i \in DOMAIN calls : calls[i].name = name
            /\ Reqs(calls, "run") = <<>>
            /\ containers[name] = "exited" =>
                   /\ Len(starts) = 1
                   /\ last'.path = "ran" =>
                          /\ Len(runs) = 1
                          /\ calls[Len(calls)] = runs[1]
                          /\ containers'[name] = "running"
                   /\ last'.path = "raised" =>
                          /\ runs = <<>>
                          /\ containers' = containers
            /\ containers[name] = "running" =>
                   /\ starts = <<>>
                   /\ last'.path = "ran"
                   /\ Len(runs) = 1
                   /\ calls[Len(calls)] = runs[1]
                   /\ containers' = containers
            /\ containers[name] = "absent" =>
                   /\ last'.path = "raised"
                   /\ starts = <<>>
                   /\ runs = <<>>
            /\ \A i \in DOMAIN runs :
                   runs[i].command = last'.config.command]_vars

\* C24, the case: a command has run in a container that had exited; the
\* requests were get, get, reload, get, start, reload, exec_run.
SelfHealingExecWitness ==
    /\ last.op = "bash"
    /\ last.path = "ran"
    /\ Len(last.calls) = 7
    /\ last.calls[5].req = "start"
    /\ last.calls[7].req = "exec_run"
    /\ containers[last.sandbox.container_name] = "running"

\* C25: the construction of a DockerSandbox for a container name the daemon
\* has a record of, running or exited, sends one start and no run, and the
\* daemon has no other container afterwards than before; for a name the
\* daemon has no record of it sends one run, with the command sleep
\* <life_seconds> of the config, and no start.
ConstructionReuses ==
    [][(last'.op = "get_sandbox"
            /\ last'.path \in {"admitted", "DaemonError"}) =>
         LET config == last'.config
             name == config.agent_name \o <<"-sandbox-">> \o config.session_id
             calls == last'.calls
             starts == Reqs(calls, "start")
             runs == Reqs(calls, "run")
         IN /\ \A i \in DOMAIN calls : calls[i].name = name
            /\ \A n \in ContainerNames \ {name} :
                   containers'[n] = containers[n]
            /\ containers[name] # "absent" =>
                   /\ Len(starts) = 1
                   /\ runs = <<>>
                   /\ containers'[name] # "absent"
            /\ containers[name] = "absent" =>
                   /\ starts = <<>>
                   /\ Len(runs) = 1
                   /\ runs[1].command
                          = <<"sleep", str(life_seconds(config))>>
                   /\ last'.path = "admitted"
                          => containers'[name] = "running"]_vars

\* C25, the case: a key was admitted with a config of life_seconds 5 by a
\* start of a container the daemon already had, no other entry being
\* tracked.
ConstructionReusesWitness ==
    /\ last.op = "get_sandbox"
    /\ last.path = "admitted"
    /\ "life_seconds" \in DOMAIN last.config
    /\ Len(Reqs(last.calls, "start")) = 1
    /\ Len(_pool) + Len(_evicted) = 1

\* C26 as stated: the Sandbox of every entry, in either tier, is bound to
\* the container named "{agent_name}-sandbox-{session_id}" of the key the
\* entry is tracked under, whatever config get_sandbox was called with.
NameFromKey ==
    \A i \in TwoIdentities :
        LET key == _make_key(i[1], i[2])
            name == i[1] \o <<"-sandbox-">> \o i[2]
        IN /\ od_has(_pool, key)
               => od_get(_pool, key).sandbox.container_name = name
           /\ od_has(_evicted, key)
               => od_get(_evicted, key).sandbox.container_name = name

\* C27: DockerSandbox.close returns normally whatever the daemon answers:
\* it attempts the stop (get, then stop when the container is there), then
\* it attempts the remove (get, then remove when the container is there),
\* also after a failed stop and for a container that is already gone; the
\* remove_sandbox that called it returns True and the entry is gone.
CloseBestEffort ==
    /\ [][(last'.op = "remove_sandbox" /\ last'.path = "True") =>
            LET key == last'.key
                tier == IF od_has(_pool, key) THEN _pool ELSE _evicted
                name == od_get(tier, key).sandbox.container_name
                calls == last'.calls
                stopping == IF containers[name] = "absent"
                            THEN <<Req("get", name)>>
                            ELSE <<Req("get", name), Req("stop", name)>>
                k == Len(stopping)
            IN /\ key \in TrackedKeys
               /\ Len(calls) \in {k + 1, k + 2}
               /\ SubSeq(calls, 1, k) = stopping
               /\ calls[k + 1] = Req("get", name)
               /\ Len(calls) = k + 2 => calls[k + 2] = Req("remove", name)
               /\ Len(calls) = k + 1 <=> containers[name] = "absent"
               /\ last'.closed = <<od_get(tier, key).sandbox.id>>
               /\ ~od_has(_pool', key)
               /\ ~od_has(_evicted', key)]_vars
    /\ [](\A key \in TrackedKeys, stop_ok \in BOOLEAN, remove_ok \in BOOLEAN :
             LET tier == IF od_has(_pool, key) THEN _pool ELSE _evicted
             IN ~close(od_get(tier, key).sandbox, containers, stop_ok,
                       remove_ok).raised)

\* C27, the case: remove_sandbox has returned True after a close() whose
\* stop was rejected and whose remove was attempted and rejected too: the
\* container is still running.
CloseBestEffortWitness ==
    /\ last.op = "remove_sandbox"
    /\ last.path = "True"
    /\ Len(last.calls) = 4
    /\ containers[last.calls[1].name] = "running"

\* C28: when the run or the start of an admission is rejected, get_sandbox
\* raises it after that one request (no second run or start), returns no
\* Sandbox, and the key is in neither tier afterwards; the daemon's
\* containers are as they were.
AdmissionFailurePropagates ==
    [][(last'.op = "get_sandbox" /\ last'.path = "DaemonError") =>
         /\ last'.sandbox = NoSandbox
         /\ Len(Reqs(last'.calls, "run")) + Len(Reqs(last'.calls, "start")) = 1
         /\ last'.calls[Len(last'.calls)].req \in {"run", "start"}
         /\ ~od_has(_pool', last'.key)
         /\ ~od_has(_evicted', last'.key)
         /\ ~od_has(_pool, last'.key)
         /\ ~od_has(_evicted, last'.key)
         /\ containers' = containers
         /\ close_count' = close_count]_vars

\* C28, the case: the start of an admission was rejected for a container
\* that had exited, with another key tracked.
AdmissionFailurePropagatesWitness ==
    /\ last.op = "get_sandbox"
    /\ last.path = "DaemonError"
    /\ Reqs(last.calls, "start") # <<>>
    /\ containers[last.calls[1].name] = "exited"
    /\ Len(_pool) + Len(_evicted) >= 1

\* path ends with a dot and ext, after at least one character of its last
\* component
HasExtension(path, ext) ==
    /\ Len(path) > 2
    /\ path[Len(path)] = ext
    /\ path[Len(path) - 1] = "."
    /\ path[Len(path) - 2] # "/"

\* C29: execute_file passes exactly one command to exec, chosen by the
\* extension of the path: sh, python or node with the path and the args for
\* .sh, .py and .js; for .c one sh -c statement that the shell reads as
\* cc <path> -o /tmp/<stem>-<session_id>.out && /tmp/<stem>-<session_id>.out
\* <args>; for every other path one sh -c statement that the shell reads as
\* chmod +x <path> && <path> <args>; it raises for no path.
ExtensionDispatch ==
    last.op = "execute_file" =>
        LET path == input.path
            args == input.args
            command == last.command
            out == <<"/", "tmp", "/">> \o stem(path) \o <<"-">>
                       \o last.sandbox.session_id \o <<".", "out">>
            read == sh_and_list(sh_words(command[3]))
        IN /\ last.path = "returned"
           /\ Len(Reqs(last.calls, "exec_run")) = 1
           /\ Reqs(last.calls, "exec_run")[1].command = command
           /\ IF HasExtension(path, "sh")
              THEN command = <<<<"sh">>, path>> \o args
              ELSE IF HasExtension(path, "py")
              THEN command = <<<<"python">>, path>> \o args
              ELSE IF HasExtension(path, "js")
              THEN command = <<<<"node">>, path>> \o args
              ELSE /\ Len(command) = 3
                   /\ command[1] = <<"sh">>
                   /\ command[2] = <<"-", "c">>
                   /\ IF HasExtension(path, "c")
                      THEN read = <<<<<<"cc">>, path, <<"-", "o">>, out>>,
                                    <<out>> \o args>>
                      ELSE read = <<<<<<"chmod">>, <<"+", "x">>, path>>,
                                    <<path>> \o args>>

\* C29, the case: execute_file of it's.c with the args "a b" and "it's" has
\* passed its compile-and-run statement to exec.
ExtensionDispatchWitness ==
    /\ last.op = "execute_file"
    /\ input.path = <<"it", "'", "s", ".", "c">>
    /\ Len(input.args) = 2
    /\ last.path = "returned"

\* C30 as stated: after write_file(path, content) the file at path holds
\* exactly content, the shell has run nothing but the cat that writes it,
\* and read_file(path) returns content.
WriteFileExact ==
    /\ od_has(files, input.path) => od_get(files, input.path) = input.content
    /\ last.op = "write_file" => last.extra = <<>>
    /\ (last.op = "read_file" /\ od_has(files, input.path))
           => last.output = input.content

\* C13 as stated: while a thread that got its Sandbox from get_sandbox has
\* a command running on it, the container stays running: neither a soft
\* eviction nor the idle sweep stops or removes it, also when the entry was
\* soft-evicted by other admissions and is idle for longer than
\* idle_timeout.
NoDestructionMidUse ==
    \A t \in Callers :
        callers[t].at = "exec"
            => containers[callers[t].sandbox.container_name] = "running"

\* C14 as stated: when two threads call get_sandbox at the same time for a
\* key in neither tier, both get a Sandbox, the same one, and one Sandbox
\* only is built for the key.
SerializedAdmission ==
    \A t, u \in Callers :
        (/\ t # u
         /\ callers[t].rival
         /\ callers[u].rival
         /\ callers[t].key = callers[u].key
         /\ callers[t].at \in {"got", "raised"}
         /\ callers[u].at \in {"got", "raised"})
            => /\ callers[t].at = "got"
               /\ callers[u].at = "got"
               /\ callers[t].sandbox = callers[u].sandbox

\* C15 as stated: with get_sandbox calls running at the same time, the
\* sweep never raises, the two tiers stay disjoint, and no Sandbox the
\* sweep has closed is in the active tier.
SweepSafeWithGetSandbox ==
    /\ sweeper.at # "raised"
    /\ od_keys(_pool) \cap od_keys(_evicted) = {}
    /\ sweeper.closed \cap Held(_pool) = {}

\* the entry either tier tracks for key
EntryOf(key) ==
    IF od_has(_pool, key) THEN od_get(_pool, key) ELSE od_get(_evicted, key)

\* the call that is returning touched the entry of key
Touched(call, key) ==
    /\ call.key = key
    /\ \/ call.op = "get_sandbox" /\ call.path \in {"hit", "revived"}
       \/ call.op = "mark_sandbox" /\ call.path = "touched"

\* C31: an entry that stays tracked over a step keeps its created_at; a
\* get_sandbox hit or revival or a mark_sandbox of an active key sets its
\* last_accessed to the time of the call and adds 1 to its access_count;
\* every other step (soft eviction, sweeps, removals of other keys, the
\* getters, touches of other keys) leaves the three fields as they were.
MetadataOnlyByTouch ==
    [][\A key \in TrackedKeys \cap TrackedKeys' :
           /\ EntryOf(key)'.created_at = EntryOf(key).created_at
           /\ EntryOf(key)'.sandbox = EntryOf(key).sandbox
           /\ IF Touched(last', key)
              THEN /\ EntryOf(key)'.access_count
                          = EntryOf(key).access_count + 1
                   /\ EntryOf(key)'.last_accessed = now
              ELSE /\ EntryOf(key)'.access_count = EntryOf(key).access_count
                   /\ EntryOf(key)'.last_accessed
                          = EntryOf(key).last_accessed]_vars

\* an entry created at time 0 was soft-evicted and is revived at time 1:
\* the second access, and the other entry, touched once by mark_sandbox, is
\* still as that touch left it
MetadataOnlyByTouchWitness ==
    /\ last.op = "get_sandbox"
    /\ last.path = "revived"
    /\ EntryOf(last.key).created_at = 0
    /\ EntryOf(last.key).last_accessed = 1
    /\ EntryOf(last.key).access_count = 2
    /\ \E other \in TrackedKeys \ {last.key} :
           /\ EntryOf(other).access_count = 2
           /\ EntryOf(other).last_accessed = 0

\* the records of a snapshot that are about key
RecordsOf(info, key) == {i \in DOMAIN info : info[i].key = key}

\* C32: what a getter returns agrees with the tiers: the three sizes are
\* the sizes of active, of evicted and their sum; is_pool_full is True
\* exactly when active holds at least capacity entries; has_sandbox is True
\* exactly when its key is in one of the tiers; get_all_sandboxes_info has
\* one record per tracked entry and no other, about the entry's
\* agent_name, session_id and access_count, with status active for the
\* entries of active and evicted for those of evicted.
IntrospectionAgrees ==
    /\ last.op = "get_pool_size" => last.count = Len(_pool)
    /\ last.op = "get_evicted_size" => last.count = Len(_evicted)
    /\ last.op = "get_total_size" => last.count = Len(_pool) + Len(_evicted)
    /\ last.op = "is_pool_full"
           => (last.path = "True" <=> Len(_pool) >= capacity)
    /\ last.op = "has_sandbox"
           => (last.path = "True" <=> last.key \in TrackedKeys)
    /\ last.op = "get_all_sandboxes_info"
           => /\ Len(last.info) = Len(_pool) + Len(_evicted)
              /\ \A i \in DOMAIN last.info : last.info[i].key \in TrackedKeys
              /\ \A key \in TrackedKeys :
                     /\ Cardinality(RecordsOf(last.info, key)) = 1
                     /\ \A i \in RecordsOf(last.info, key) :
                            LET record == last.info[i].item IN
                            /\ record.status
                                   = IF od_has(_pool, key) THEN "active"
                                     ELSE "evicted"
                            /\ record.agent_name = EntryOf(key).agent_name
                            /\ record.session_id = EntryOf(key).session_id
                            /\ record.access_count
                                   = EntryOf(key).access_count

\* get_all_sandboxes_info has answered for a pool with an active and an
\* evicted entry
IntrospectionAgreesWitness ==
    /\ last.op = "get_all_sandboxes_info"
    /\ Len(_pool) = 1
    /\ Len(_evicted) = 1
    /\ Len(last.info) = 2

\* the failed attempts among outcomes
Failed(outcomes) == {k \in DOMAIN outcomes : outcomes[k] = "DockerException"}

\* C33: init_docker_client(retries, base_delay) makes at most retries
\* attempts and stops at the first that succeeds, whose client it returns
\* and caches; it has slept base_delay * 2^(k-1) after the k-th failed
\* attempt, but not after the retries-th; it raises RuntimeError exactly
\* when retries attempts were made and all failed; a call made while a
\* client is cached returns that client without an attempt; and every call
\* ends.
ClientBootstrap ==
    /\ [](/\ Len(boot.outcomes) <= boot.retries
          /\ \A k \in 1..(Len(boot.outcomes) - 1) : k \in Failed(boot.outcomes)
          /\ \A k \in DOMAIN boot.slept :
                 boot.slept[k] = boot.base_delay * 2^(k - 1)
          /\ (boot.at = "returned" /\ boot.outcomes # <<>>)
                 => /\ Len(boot.outcomes) \notin Failed(boot.outcomes)
                    /\ boot.result
                           = DockerClient(boot.call, Len(boot.outcomes))
                    /\ _docker_client = boot.result
                    /\ Len(boot.slept) = Len(boot.outcomes) - 1
          /\ boot.at = "raised"
                 => /\ Len(boot.outcomes) = boot.retries
                    /\ Failed(boot.outcomes) = DOMAIN boot.outcomes
                    /\ Len(boot.slept) = IF boot.retries = 0 THEN 0
                                         ELSE boot.retries - 1
                    /\ boot.result = None
          /\ (/\ boot.at = "returned"
              /\ Len(boot.outcomes) = boot.retries
              /\ boot.outcomes # <<>>)
                 => Failed(boot.outcomes) # DOMAIN boot.outcomes)
    /\ [][(boot'.call # boot.call /\ _docker_client # None)
              => /\ boot'.at = "returned"
                 /\ boot'.result = _docker_client
                 /\ boot'.outcomes = <<>>
                 /\ boot'.slept = <<>>
                 /\ _docker_client' = _docker_client]_vars
    /\ (boot.at \in {"attempt", "sleep"})
           ~> (boot.at \in {"returned", "raised"})

\* a second call, after a first that raised, has returned the client of
\* its third attempt, having slept 3 and 6 half-seconds after the two
\* failed ones
ClientBootstrapWitness ==
    /\ boot.call = 2
    /\ boot.at = "returned"
    /\ boot.retries = 3
    /\ boot.outcomes = <<"DockerException", "DockerException", "ok">>
    /\ boot.slept = <<3, 6>>
    /\ _docker_client = DockerClient(2, 3)

\* C34: a SandboxManager(...) or init_sandbox_manager(...) call without
\* docker_client, made while no client is cached (and, for
\* init_sandbox_manager, no pool exists), raises RuntimeError, returns
\* nothing and leaves _sandbox_manager None; get_sandbox_manager raises
\* RuntimeError as long as no init_sandbox_manager call has returned a
\* pool; a pool only comes from such a call, always has a client, and
\* every later init_sandbox_manager call returns it unchanged, whatever
\* its arguments.
PoolNeedsClient ==
    /\ [](_sandbox_manager # None
              => _sandbox_manager._docker_client # None)
    /\ [][/\ (/\ last = Idle
              /\ last'.op \in {"SandboxManager", "init_sandbox_manager"}
              /\ last'.config.docker_client = None
              /\ _docker_client = None
              /\ _sandbox_manager = None)
                 => /\ last'.path = "RuntimeError"
                    /\ last'.info = None
                    /\ _sandbox_manager' = None
          /\ (last = Idle /\ last'.op = "get_sandbox_manager")
                 => IF _sandbox_manager = None
                    THEN last'.path = "RuntimeError" /\ last'.info = None
                    ELSE /\ last'.path = "returned"
                         /\ last'.info = _sandbox_manager
          /\ _sandbox_manager' # _sandbox_manager
                 => /\ _sandbox_manager = None
                    /\ last'.op = "init_sandbox_manager"
                    /\ last'.path = "returned"
                    /\ last'.info = _sandbox_manager'
                    /\ _sandbox_manager'.capacity = last'.count
          /\ (/\ last = Idle
              /\ last'.op = "init_sandbox_manager"
              /\ _sandbox_manager # None)
                 => /\ last'.path = "returned"
                    /\ last'.info = _sandbox_manager
                    /\ _sandbox_manager' = _sandbox_manager]_vars

\* init_sandbox_manager() without docker_client has raised while
\* init_docker_client is between two attempts, and no pool exists
PoolNeedsClientWitness ==
    /\ last.op = "init_sandbox_manager"
    /\ last.config.docker_client = None
    /\ last.path = "RuntimeError"
    /\ boot.at = "sleep"
    /\ _sandbox_manager = None

(* ------------------------------ tracker ------------------------------ *)
\* mwin: the @track decorator (track/base.py, track/at_track.py), the
\* context it keeps (context/storage.py) and the steps and traces it
\* builds (helper/args_helper.py).  A tracked function is called, runs,
\* possibly calls tracked functions itself, and ends by returning a value
\* or raising; the wrapper logs a step and a trace through the client.

\* how deep tracked calls nest
MaxDepth == 2

\* how many calls of tracked functions a behaviour makes
MaxCalls == 2

\* the tracked functions
TrackedFunctions == {"add", "fetch"}

\* async def or def
IsAsync(func) == func = "fetch"

\* a Python int
PyInt(n) == [int |-> n]

\* a Python str
PyStr(t) == [str |-> t]

\* a uuid
UUID(n) == [uuid |-> n]

\* what a function returns: 0 is a value that is false as a condition
Outputs == {PyInt(0), PyInt(3)}

\* the exceptions a function ends with: ValueError is an Exception,
\* KeyboardInterrupt and asyncio.CancelledError are BaseExceptions only
ExceptionClasses == {"ValueError", "KeyboardInterrupt", "CancelledError"}

ExceptionTexts == {"boom"}

\* isinstance(e, Exception)
IsException(class) == class = "ValueError"

\* the outcome of a call: a value returned
Returns(value) == [raised |-> FALSE, class |-> "", text |-> "",
                   value |-> value]

\* the outcome of a call: an exception raised, str(e) = text
Raises(class, text) == [raised |-> TRUE, class |-> class, text |-> text,
                        value |-> None]

\* the outcomes of a tracked function
Outcomes(func) ==
    {Returns(v) : v \in Outputs}
    \cup {Raises(c, t) : c \in {"ValueError", "KeyboardInterrupt"},
                         t \in ExceptionTexts}
    \cup {Raises("CancelledError", "") : a \in {func} \cap {"fetch"}}

\* str(x) of a uuid or of None
str_id(x) == IF x = None THEN <<"None">> ELSE <<"uuid", "-">> \o str(x.uuid)

\* bool(x), the condition `if x:`
bool(x) == x # None /\ x # PyInt(0)

\* id_helper.generate_id(), ids handed out before: an id no earlier call
\* returned
generate_id(ids) == UUID(ids + 1)

\* storage.py: add_step
add_step(steps, new_step) == Append(steps, new_step)

\* storage.py: pop_step, the step it returns and the stack it leaves
pop_step(steps) ==
    IF Len(steps) = 0
    THEN [step |-> None, _steps |-> steps]
    ELSE [step |-> steps[Len(steps)],
          _steps |-> SubSeq(steps, 1, Len(steps) - 1)]

\* storage.py: get_top_step
get_top_step(steps) == IF Len(steps) = 0 THEN None ELSE steps[Len(steps)]

\* storage.py: pop_trace, the trace it returns and the one it leaves
pop_trace(trace) == [trace |-> trace, _trace |-> None]

\* args_helper.create_new_trace(): the trace and the ids handed out
create_new_trace(ids) ==
    [trace |-> [id |-> generate_id(ids),
                conversation_id |-> generate_id(ids + 1),
                output |-> None, error_info |-> None],
     generated |-> ids + 2]

\* create_new_step with a trace id of its own for every step
create_new_step_detached(trace, steps, ids, name) ==
    LET step_id == generate_id(ids)
        parent_step == get_top_step(steps)
    IN [step |-> [id |-> step_id, trace_id |-> generate_id(ids + 1),
                  parent_step_id |-> IF parent_step # None
                                     THEN parent_step.id ELSE None,
                  name |-> name, output |-> None, error_info |-> None],
        generated |-> ids + 2]

\* args_helper.create_new_step(name=name): the step and the ids handed out
create_new_step(trace, steps, ids, name) ==
    LET step_id == generate_id(ids)
        parent_step == get_top_step(steps)
    IN [step |-> [id |-> step_id,
                  trace_id |-> IF trace # None THEN trace.id
                               ELSE generate_id(ids + 1),
                  parent_step_id |-> IF parent_step # None
                                     THEN parent_step.id ELSE None,
                  name |-> name, output |-> None, error_info |-> None],
        generated |-> IF trace # None THEN ids + 1 ELSE ids + 2]

\* AITraceTracker.end_output_exception_preprocess
end_output_exception_preprocess(output, error_info) ==
    [output |-> [func_output |-> IF bool(output) THEN output ELSE None],
     error_info |-> error_info]

\* BaseTracker._before_calling_function: the context it leaves
_before_calling_function(trace, steps, ids, func) ==
    LET opened == IF trace = None THEN create_new_trace(ids)
                  ELSE [trace |-> trace, generated |-> ids]
        new == create_new_step(opened.trace, steps, opened.generated, func)
    IN [_trace |-> opened.trace,
        _steps |-> add_step(steps, new.step),
        generated |-> new.generated]

\* SyncClient.log_step as _after_calling_function calls it
log_step(client, step) ==
    [client EXCEPT !.steps = Append(@,
        [step_name |-> step.name, step_id |-> str_id(step.id),
         trace_id |-> str_id(step.trace_id),
         parent_step_id |-> str_id(step.parent_step_id),
         output |-> step.output, error_info |-> step.error_info])]

\* SyncClient.log_trace as _after_calling_function calls it
log_trace(client, trace) ==
    [client EXCEPT !.traces = Append(@,
        [trace_id |-> str_id(trace.id),
         conversation_id |-> str_id(trace.conversation_id),
         output |-> trace.output, error_info |-> trace.error_info])]

\* BaseTracker._after_calling_function: the context and the client it
\* leaves
_after_calling_function(trace, steps, ids, client, func, output, error_info) ==
    LET end_args == end_output_exception_preprocess(output, error_info)
        popped == pop_step(steps)
        made == IF popped.step = None
                THEN create_new_step(trace, popped._steps, ids, func)
                ELSE [step |-> popped.step, generated |-> ids]
        current_step == [made.step EXCEPT
                            !.output = [func_output |->
                                            end_args.output.func_output],
                            !.error_info = end_args.error_info]
        opened == IF trace = None THEN create_new_trace(made.generated)
                  ELSE [trace |-> trace, generated |-> made.generated]
        current_trace == IF error_info = None
                         THEN [opened.trace EXCEPT
                                   !.output = end_args.output]
                         ELSE [opened.trace EXCEPT
                                   !.output = None,
                                   !.error_info = error_info]
    IN [_trace |-> current_trace,
        _steps |-> popped._steps,
        generated |-> opened.generated,
        sync_client |-> log_trace(log_step(client, current_step),
                                  current_trace)]

\* the wrapper from the end of func on: the except clause, the arguments
\* the finally clause gives _after_calling_function, and what the finally
\* clause hands the caller
wrapper(outcome) ==
    LET caught == outcome.raised /\ IsException(outcome.class)
        result == IF outcome.raised THEN None ELSE outcome.value
        error_info == IF caught THEN PyStr(outcome.text) ELSE None
        func_exception == IF caught THEN outcome ELSE None
    IN [output |-> result,
        error_info |-> error_info,
        outcome |-> IF func_exception # None THEN func_exception
                    ELSE Returns(result)]

\* the test's context reset: pop_storage_step() until it returns None
RECURSIVE pop_all_steps(_)
pop_all_steps(steps) ==
    IF pop_step(steps).step = None THEN pop_step(steps)._steps
    ELSE pop_all_steps(pop_step(steps)._steps)

\* the trace ids the client has been given
LoggedTraceIds ==
    {sync_client.steps[i].trace_id : i \in DOMAIN sync_client.steps}
    \cup {sync_client.traces[i].trace_id : i \in DOMAIN sync_client.traces}

\* what the tracker leaves alone
TrackFrame ==
    UNCHANGED <<capacity, _pool, _evicted, containers, now, accesses,
                close_count, first_admitted, admitted, get_order,
                touch_order, callers, sweeper, lifespan, input, files,
                bootstrap>>

\* a process that has started and has called no tracked function
InitTrack ==
    /\ InitManager
    /\ Bootstrapped
    /\ Untracked
    /\ capacity = 1
    /\ lifespan = Started("celery")
    /\ input = None
    /\ files = NoFiles

\* a tracked function is called, by the program or by the tracked function
\* that is running: the wrapper up to `result = func(*args, **kwargs)`.
\* The frame remembers the trace that is current when the step has started
\* and what the client had been given by then.
TrackedCall(func) ==
    LET b == _before_calling_function(_trace, _steps, generated, func) IN
    /\ Len(wrappers) < MaxDepth
    /\ Len(sync_client.steps) + Len(wrappers) < MaxCalls
    /\ _trace' = b._trace
    /\ _steps' = b._steps
    /\ generated' = b.generated
    /\ wrappers' = Append(wrappers,
                          [func |-> func,
                           opened |-> _trace = None,
                           started_in |-> b._trace.id,
                           seen |-> LoggedTraceIds])
    /\ last' = Idle
    /\ UNCHANGED sync_client
    /\ TrackFrame

\* the innermost tracked function ends with an outcome: the rest of the
\* wrapper
TrackedEnd(outcome) ==
    LET top == wrappers[Len(wrappers)]
        w == wrapper(outcome)
        a == _after_calling_function(_trace, _steps, generated, sync_client,
                                     top.func, w.output, w.error_info)
    IN
    /\ wrappers # <<>>
    /\ outcome \in Outcomes(top.func)
    /\ _trace' = a._trace
    /\ _steps' = a._steps
    /\ generated' = a.generated
    /\ sync_client' = a.sync_client
    /\ wrappers' = SubSeq(wrappers, 1, Len(wrappers) - 1)
    /\ last' = Answer(top.func, <<>>, "wrapper", Len(wrappers),
                      [func |-> outcome, caller |-> w.outcome,
                       frame |-> top])
    /\ TrackFrame

\* between two requests the context is reset: every step popped, the trace
\* popped
ResetContext ==
    /\ wrappers = <<>>
    /\ _steps' = pop_all_steps(_steps)
    /\ _trace' = pop_trace(_trace)._trace
    /\ last' = Idle
    /\ UNCHANGED <<sync_client, wrappers, generated>>
    /\ TrackFrame

\* celery's task_prerun signal: set_trace(None)
ClearTraceOnCeleryTask ==
    /\ _trace' = None
    /\ last' = Idle
    /\ UNCHANGED <<_steps, sync_client, wrappers, generated>>
    /\ TrackFrame

NextTrack ==
    \/ \E func \in TrackedFunctions : TrackedCall(func)
    \/ \E func \in TrackedFunctions :
           \E outcome \in Outcomes(func) : TrackedEnd(outcome)
    \/ ResetContext
    \/ ClearTraceOnCeleryTask

SpecTrack == InitTrack /\ [][NextTrack]_vars

\* the record the client was given last
LastLogged(records) == records[Len(records)]

\* C35 as stated: every invocation of a tracked function, sync or async,
\* logs exactly one step record and one trace record (none while the
\* function is still to run, one of each when it ends), the wrapper hands
\* its caller the function's own outcome, the value returned or the
\* exception raised, and when the function raised, the logged step and the
\* logged trace carry the text of the exception as error_info, the step
\* with func_output None and the trace with output None.
LoggedOnceAndTransparent ==
    [][/\ Len(wrappers') > Len(wrappers) => sync_client' = sync_client
       /\ Len(wrappers') < Len(wrappers) =>
            /\ Len(sync_client'.steps) = Len(sync_client.steps) + 1
            /\ Len(sync_client'.traces) = Len(sync_client.traces) + 1
            /\ last'.info.caller = last'.info.func
            /\ last'.info.func.raised =>
                 /\ LastLogged(sync_client'.steps).error_info
                        = PyStr(last'.info.func.text)
                 /\ LastLogged(sync_client'.steps).output
                        = [func_output |-> None]
                 /\ LastLogged(sync_client'.traces).error_info
                        = PyStr(last'.info.func.text)
                 /\ LastLogged(sync_client'.traces).output = None]_vars

NextAdmit ==
    \/ Tick
    \/ Return
    \/ \E i \in Identities, accept \in BOOLEAN :
           \E config \in ConfigsFor(i[1], i[2]) \cup {None} :
               GetSandbox(i[1], i[2], config, accept)
    \/ \E i \in Identities : MarkSandbox(i[1], i[2])

SpecAdmit == Init /\ [][NextAdmit]_vars

\* the requests of a call that stop or remove a container
Destroying(calls) ==
    {i \in DOMAIN calls : calls[i].req \in {"stop", "remove"}}

\* C37: in a sequence made only of get_sandbox and mark_sandbox calls the
\* set of tracked keys only grows; get_total_size grows by exactly 1 with
\* each successful admission of a new key and is unchanged by every other
\* call (hit, revival, mark, call that raises); and the pool sends no stop
\* and no remove request, calls close() on no sandbox, and no running
\* container stops running.
NothingLostWithoutSweep ==
    [][/\ TrackedKeys \subseteq TrackedKeys'
       /\ last' # Idle =>
            /\ get_total_size(_pool', _evicted')
                   = get_total_size(_pool, _evicted)
                     + (IF last'.path = "admitted" THEN 1 ELSE 0)
            /\ last'.path = "admitted" =>
                   /\ last'.key \notin TrackedKeys
                   /\ last'.key \in TrackedKeys'
            /\ Destroying(last'.calls) = {}
            /\ last'.closed = <<>>
       /\ close_count' = close_count
       /\ \A name \in DOMAIN containers :
              containers[name] = "running" => containers'[name] = "running"
      ]_vars

\* three admissions into a pool of capacity 1 have left two entries in the
\* evicted tier, more than the capacity, all three containers running
NothingLostWithoutSweepWitness ==
    /\ capacity = 1
    /\ last.op = "get_sandbox"
    /\ last.path = "admitted"
    /\ Len(_evicted) = 2
    /\ get_total_size(_pool, _evicted) = 3
    /\ \A i \in DOMAIN _evicted :
           containers[_evicted[i].item.sandbox.container_name] = "running"

\* C38 as stated: when the construction of the Sandbox raises inside
\* get_sandbox for a new key, the active and the evicted tier are as they
\* were before the call, also when the active tier was full.
FailedAdmissionNoEffect ==
    [][(last'.op = "get_sandbox" /\ last'.path = "DaemonError") =>
           /\ _pool' = _pool
           /\ _evicted' = _evicted]_vars

(* ----------------------- closing and readmission ---------------------- *)
\* Every call of the pool, in sequence, with a daemon that accepts or
\* rejects the stop and the remove requests of each call that closes
\* sandboxes, and the run or start request of each construction.  Entries
\* leave the tiers through close() only: clear_pool is called with
\* close_containers=True.

\* the daemon accepts the stops, or the removes, of all sandboxes or of none
AllOrNone == {{}, SandboxIds}

NextClose ==
    \/ Tick
    \/ Return
    \/ \E i \in TwoIdentities, accept \in BOOLEAN :
           \E config \in ConfigsFor(i[1], i[2]) \cup {None} :
               GetSandbox(i[1], i[2], config, accept)
    \/ \E i \in TwoIdentities : MarkSandbox(i[1], i[2])
    \/ \E i \in TwoIdentities, stop_ok \in BOOLEAN, remove_ok \in BOOLEAN :
           RemoveSandbox(i[1], i[2], stop_ok, remove_ok)
    \/ EvictLru
    \/ \E t \in IdleTimeouts, stop_oks \in AllOrNone, remove_oks \in AllOrNone :
           CleanupIdleSandboxes(t, stop_oks, remove_oks)
    \/ \E stop_oks \in AllOrNone, remove_oks \in AllOrNone :
           CleanupAllEvicted(stop_oks, remove_oks)
    \/ \E stop_oks \in AllOrNone, remove_oks \in AllOrNone :
           ClearPool(TRUE, stop_oks, remove_oks)

SpecClose == Init /\ [][NextClose]_vars

\* the sandboxes the tiers hold
TrackedSandboxes == Held(_pool) \cup Held(_evicted)

\* C39: in sequential operation no entry of the active or the evicted tier
\* holds a Sandbox the pool has called close() on, and get_sandbox returns
\* no such Sandbox; a key whose entry remove_sandbox, a sweep or clear_pool
\* has closed is tracked no longer, and get_sandbox for a key that is not
\* tracked raises ValueError without config and leaves both tiers alone,
\* and with a config the daemon accepts it constructs a Sandbox (a run or
\* start request is sent) and puts it in a new entry at the end of the
\* active tier, with access_count = 1 and created at the time of the call.
NoClosedSandboxTracked ==
    /\ [](\A id \in TrackedSandboxes : close_count[id] = 0)
    /\ []((last.op = "get_sandbox" /\ last.sandbox # NoSandbox) =>
              close_count[last.sandbox.id] = 0)
    /\ [][/\ \A i \in DOMAIN last'.closed :
                 /\ last'.closed[i][1] \notin TrackedKeys'
                 /\ last'.closed[i] \notin TrackedSandboxes'
          /\ (last'.op = "get_sandbox" /\ last'.key \notin TrackedKeys) =>
                 IF last'.config = None
                 THEN /\ last'.path = "ValueError"
                      /\ _pool' = _pool
                      /\ _evicted' = _evicted
                 ELSE last'.path \in {"admitted", "DaemonError"}
          /\ (last'.op = "get_sandbox" /\ last'.path = "admitted") =>
                 LET entry == _pool'[Len(_pool')] IN
                 /\ last'.key \notin TrackedKeys
                 /\ last'.calls # <<>>
                 /\ entry.key = last'.key
                 /\ entry.item.sandbox = last'.sandbox
                 /\ entry.item.access_count = 1
                 /\ entry.item.created_at = now
                 /\ last'.sandbox.id \notin TrackedSandboxes
         ]_vars

\* a call has closed a key's entry while the daemon rejected the remove of
\* its container, and the next get_sandbox for the key, with config, has
\* found the container, started it for a new Sandbox and put that in a new
\* entry, touched once
NoClosedSandboxTrackedWitness ==
    /\ last.op = "get_sandbox"
    /\ last.path = "admitted"
    /\ \E i \in DOMAIN last.calls :
           last.calls[i] = Req("start", last.sandbox.container_name)
    /\ close_count[last.sandbox.id] = 0
    /\ od_has(_pool, last.key)
    /\ od_get(_pool, last.key).sandbox = last.sandbox
    /\ od_get(_pool, last.key).access_count = 1

(* ------------------------ names with separators ----------------------- *)
\* Agent names and session ids that contain ':' or '-sandbox-', the
\* separators _make_key and DockerSandbox.__init__ put between them.

\* ("A:B", "s1"), ("A", "B:s1"), ("A-sandbox-B", "s1"), ("A", "B-sandbox-s1")
\* and ("A", "s1")
SeparatorIdentities ==
    {<<<<"A", ":", "B">>, <<"s1">>>>,
     <<<<"A">>, <<"B", ":", "s1">>>>,
     <<<<"A", "-sandbox-", "B">>, <<"s1">>>>,
     <<<<"A">>, <<"B", "-sandbox-", "s1">>>>,
     <<<<"A">>, <<"s1">>>>}

\* the config bash() builds for an identity
ConfigOf(i) ==
    [agent_name |-> i[1], session_id |-> i[2],
     docker_image |-> "python:3.12.12"]

\* an empty pool of capacity 2 and a daemon without containers
InitNames ==
    /\ callers = [t \in Callers |-> CallerIdle]
    /\ sweeper = SweeperIdle
    /\ capacity = 2
    /\ _pool = <<>>
    /\ _evicted = <<>>
    /\ containers = [n \in {container_name(ConfigOf(i)) :
                              i \in SeparatorIdentities} |-> "absent"]
    /\ now = 0
    /\ accesses = 0
    /\ close_count = [i \in SandboxIds |-> 0]
    /\ last = Idle
    /\ first_admitted = [k \in AllKeys |-> NoSandbox]
    /\ admitted = [k \in AllKeys |-> NoSandbox]
    /\ get_order = <<>>
    /\ touch_order = <<>>
    /\ Bootstrapped
    /\ Untracked
    /\ lifespan = Started("api")
    /\ input = None
    /\ files = NoFiles

\* what the calls below leave alone
NamesFrame ==
    UNCHANGED <<capacity, now, close_count, first_admitted, admitted,
                get_order, touch_order, callers, sweeper, lifespan, input,
                files, bootstrap, tracking>>

\* a returning call and the identity it was made for
CallFor(i, op, config, path, sandbox, calls, closed) ==
    [Answer(op, _make_key(i[1], i[2]), path, 0,
            [agent_name |-> i[1], session_id |-> i[2]])
        EXCEPT !.config = config, !.sandbox = sandbox, !.calls = calls,
               !.closed = closed]

\* get_sandbox(agent_name, session_id, config) for the identity i; the
\* Sandbox it constructs is the accesses-th object
GetSandboxFor(i, config, accept) ==
    LET key == _make_key(i[1], i[2])
        o == get_sandbox(_pool, _evicted, containers, capacity, i[1], i[2],
                         config, <<key, accesses + 1>>, now, accept)
    IN
    /\ last = Idle
    /\ accesses < MaxAccesses
    /\ accesses' = accesses + 1
    /\ _pool' = o.pool
    /\ _evicted' = o.evicted
    /\ containers' = o.containers
    /\ last' = CallFor(i, "get_sandbox", config, o.path, o.sandbox, o.calls,
                       <<>>)
    /\ NamesFrame

\* what a call that closes sandboxes leaves behind
ClosingFor(call, e) ==
    /\ last = Idle
    /\ _pool' = e.pool
    /\ _evicted' = e.evicted
    /\ containers' = e.containers
    /\ last' = [call EXCEPT !.calls = e.calls, !.closed = e.closed]
    /\ UNCHANGED accesses
    /\ NamesFrame

\* remove_sandbox(agent_name, session_id) for the identity i
RemoveSandboxFor(i) ==
    LET e == remove_sandbox(_pool, _evicted, containers,
                            _make_key(i[1], i[2]), TRUE, TRUE)
    IN ClosingFor(CallFor(i, "remove_sandbox", None,
                          IF e.found THEN "removed" ELSE "absent",
                          NoSandbox, <<>>, <<>>),
                  e)

\* clear_pool(close_containers=True)
ClearPoolNames ==
    /\ _pool # <<>> \/ _evicted # <<>>
    /\ ClosingFor(Answer("clear_pool", <<>>, "closed",
                         Len(_pool) + Len(_evicted), None),
                  clear_pool(_pool, _evicted, containers, TRUE,
                             Held(_pool) \cup Held(_evicted),
                             Held(_pool) \cup Held(_evicted)))

NextNames ==
    \/ Return
    \/ \E i \in SeparatorIdentities, accept \in BOOLEAN :
           \E config \in {ConfigOf(i), None} : GetSandboxFor(i, config, accept)
    \/ \E i \in SeparatorIdentities : RemoveSandboxFor(i)
    \/ ClearPoolNames

SpecNames == InitNames /\ [][NextNames]_vars

\* the entries of both tiers
Entries == _pool \o _evicted

\* the entry a key resolves to
EntryFor(key) ==
    IF od_has(_pool, key) THEN od_get(_pool, key) ELSE od_get(_evicted, key)

\* C40 as stated: for identities whose names may contain ':' or
\* '-sandbox-', no two tracked entries are bound to the same container
\* name; the Sandbox get_sandbox returns for an identity is held by an
\* entry made for that identity; and the entry remove_sandbox closes for
\* an identity was made for that identity, and no call's stop or remove
\* request names the container of an entry that stays tracked.
IdentitiesApart ==
    /\ [](\A m, n \in DOMAIN Entries :
              m # n => Entries[m].item.sandbox.container_name
                           # Entries[n].item.sandbox.container_name)
    /\ []((last.op = "get_sandbox" /\ last.sandbox # NoSandbox) =>
              /\ EntryFor(last.key).agent_name = last.info.agent_name
              /\ EntryFor(last.key).session_id = last.info.session_id)
    /\ [][/\ (last'.op = "remove_sandbox" /\ last'.path = "removed") =>
                 /\ EntryFor(last'.key).agent_name = last'.info.agent_name
                 /\ EntryFor(last'.key).session_id = last'.info.session_id
          /\ \A c \in Destroying(last'.calls) :
                 \A n \in DOMAIN Entries' :
                     Entries'[n].item.sandbox.container_name
                         # last'.calls[c].name]_vars

====
